---- MODULE Spec2Model ----
(***************************************************************************)
(* A model of shroom-setup-unpacker.  The WzPatch engine:                  *)
(*   - the CRC engine                 (src/src/patch.rs, CRC_32_PATCHER)   *)
(*   - the patch block decoder        (src/src/patch.rs, WzPatchBlock)     *)
(*   - the record parser and visitor  (src/src/patch.rs, WzPatchStream)    *)
(*   - the applier                    (src/src/patcher.rs, WzPatcher)      *)
(* and the installer readers:                                              *)
(*   - find_needle, find_padding_data, SetupFormat  (src/src/util.rs)      *)
(*   - the InstallShield container    (src/src/setup/is.rs)                *)
(*   - the NFO300 container           (src/src/setup/nfo300.rs)            *)
(*   - Setup::extract_to              (src/src/setup/mod.rs)               *)
(* and the command line:                                                   *)
(*   - extract-all and its workers    (src/src/main.rs)                    *)
(*   - the WzPatch object             (src/src/patch.rs, WzPatch)          *)
(*                                                                         *)
(* A 32-bit word is a tuple of four bytes, most significant first, so that *)
(* every value stays inside the integer range of the model checker while   *)
(* the full width of the word is kept.  Lengths (at most 28 bits) are      *)
(* natural numbers.                                                        *)
(***************************************************************************)
EXTENDS Integers, Sequences

VARIABLES
    \* -- the CRC engine fed from a reader (wz_patch_calc_crc)
    cInput,     \* the bytes the reader will deliver
    cPos,       \* how many of them have been read
    cDigest,    \* crc::Digest: the running register
    cOut,       \* NoWord until finalize, then the digest
    \* -- the block decoder (WzPatchBlock::read_options)
    bBytes,     \* the bytes at the reader's position
    bOut,       \* NoBlock until decoded, then [blk, used]
    \* -- the applier (WzPatcher) and the files under D and D/out
    old,        \* D/p      for every path p: a byte sequence, or NoFile
    new,        \* D/out/p  for every path p: a byte sequence, or NoFile
    current,    \* WzPatcher.current: NoCur or a CurrentPatchFile
    last,       \* the handler call that was made last, and its result
    modOpen,    \* history: a handle_modify succeeded and its handle_mod_end has not
    written,    \* history: the bytes written through current.new_file since handle_modify
    \* -- the record parser (WzPatchStream::process)
    stream,     \* the decompressed byte stream
    pos,        \* the bytes of it consumed so far
    pc,         \* "record": top of process' loop; "blocks": inside process_blocks; "done"
    result,     \* "running", "ok" or "err": what process returned
    file,       \* process' local `file`: the record read last
    handler,    \* which WzPatchHandler process drives
    calls,      \* the callbacks delivered so far, in order
    lit,        \* history: the literal sub-stream handed out last
    recs,       \* history: the records the stream was written from
    \* -- find_needle over a reader (src/src/util.rs)
    nStream,    \* the bytes the reader will deliver
    nNeedle,    \* the needle
    nPos,       \* how many bytes the reader has delivered
    nBuf,       \* buffer[..n]
    nOffset,    \* the local `offset`
    nOut,       \* "running", or what find_needle returned
    \* -- SetupFormat::from_reader over a file (src/src/util.rs)
    fFile,      \* the bytes of the installer
    fOffset,    \* the local `offset`
    fOut,       \* "running", or what from_reader returned
    fScans,     \* history: the <<offset, limit>> of every find_padding_data call
    \* -- the InstallShield EntryReader (src/src/setup/is.rs)
    eName,      \* the entry's file name, the key before gen_key
    eCipher,    \* the entry's payload as stored
    eTaken,     \* how many payload bytes the reader below has delivered
    eOffset,    \* EntryReader.offset
    eOut,       \* the bytes the caller has received, in order
    eEof,       \* a read has returned Ok(0)
    \* -- Nfo300Setup::entries (src/src/setup/nfo300.rs)
    nfFile,     \* the bytes of the installer
    nfStart,    \* Nfo300Setup.nfo_offset
    nfPos,      \* the reader's position in them
    nfPc,       \* "marker", "table", "done"
    nfEntries,  \* the local `entries`
    nfOut,      \* "running", or what entries returned
    \* -- IsSetup::entries and entry_reader (src/src/setup/is.rs)
    isFile,     \* the bytes of the installer
    isHdr,      \* IsSetup.hdr_offset
    isPos,      \* the reader's position
    isFiles,    \* the local `files`
    isOut,      \* "running", or what entries returned
    isRdr,      \* the EntryReader opened last: its start and its limit
    \* -- Setup::extract_to (src/src/setup/mod.rs)
    xEntries,   \* what entries() returned, each with what its reader yields
    xIdx,       \* how many entries the for loop has finished
    xDir,       \* out_dir: file name -> contents
    xFiles,     \* the local `files`
    xOut,       \* "running", or what extract_to returned
    \* -- extract-all: one worker per installer the glob matched (main)
    xaJobs,     \* `paths`: what glob::glob returned, in its order
    xaKeep,     \* the keep_tmp flag
    xaPc,       \* where each worker stands in extract_and_report
    xaFs,       \* the directories of the file system and the files in them
    xaSeen,     \* each worker's `entries` (get_all_nested_files)
    \* -- a WzPatch object and the calls made on it
    wzFile,     \* the bytes of the patch file
    wzObj,      \* the WzPatch: hdr and data_offset, or what new returned
    wzPos,      \* the position of the shared reader
    wzLog       \* the results of the calls made so far, oldest first

crcVars == <<cInput, cPos, cDigest, cOut>>
blkVars == <<bBytes, bOut>>
appVars == <<old, new, current, last, modOpen, written>>
prsVars == <<stream, pos, pc, result, file, handler, calls, lit, recs>>
ndlVars == <<nStream, nNeedle, nPos, nBuf, nOffset, nOut>>
fmtVars == <<fFile, fOffset, fOut, fScans>>
decVars == <<eName, eCipher, eTaken, eOffset, eOut, eEof>>
nfoVars == <<nfFile, nfStart, nfPos, nfPc, nfEntries, nfOut>>
iseVars == <<isFile, isHdr, isPos, isFiles, isOut, isRdr>>
extVars == <<xEntries, xIdx, xDir, xFiles, xOut>>
xaVars == <<xaJobs, xaKeep, xaPc, xaFs, xaSeen>>
wzVars == <<wzFile, wzObj, wzPos, wzLog>>
\* the patch engine, and the installer readers
patchVars == <<crcVars, blkVars, appVars, prsVars>>
setupVars == <<ndlVars, fmtVars, decVars, nfoVars, iseVars, extVars, xaVars, wzVars>>
vars == <<patchVars, setupVars>>

----------------------------------------------------------------------------
(* Bytes and 32-bit words *)

Byte == 0..255

Min(a, b) == IF a < b THEN a ELSE b

RECURSIVE XorN(_, _, _)
\* a ^ b on the low n bits
XorN(a, b, n) ==
    IF n = 0 THEN 0
    ELSE ((a + b) % 2) + 2 * XorN(a \div 2, b \div 2, n - 1)

Xor8(a, b) == XorN(a, b, 8)

\* u32 ^ u32
XorW(v, w) == <<Xor8(v[1], w[1]), Xor8(v[2], w[2]), Xor8(v[3], w[3]), Xor8(v[4], w[4])>>

\* u32 << 1, the top bit shifted out
Shl1(w) ==
    <<((w[1] * 2) % 256) + (w[2] \div 128),
      ((w[2] * 2) % 256) + (w[3] \div 128),
      ((w[3] * 2) % 256) + (w[4] \div 128),
      (w[4] * 2) % 256>>

\* u32 << 8
Shl8(w) == <<w[2], w[3], w[4], 0>>

ZeroWord == <<0, 0, 0, 0>>

NoWord == <<>>

----------------------------------------------------------------------------
(* The CRC engine: crc::Crc::<u32>::new(&CRC_32_PATCHER), table driven,     *)
(* width 32, not reflected.                                                 *)

\* poly: 0x04c11db7
CrcPoly == <<4, 193, 29, 183>>

\* the initial value of the common CRC-32 variants
CrcInitOnes == <<255, 255, 255, 255>>

\* init: 0
CrcInit == ZeroWord

\* xorout: 0x00000000
CrcXorOut == ZeroWord

RECURSIVE CrcShift(_, _)
\* n rounds of: crc = (crc << 1) ^ (poly if the top bit was set)
CrcShift(w, n) ==
    IF n = 0 THEN w
    ELSE CrcShift(IF w[1] >= 128 THEN XorW(Shl1(w), CrcPoly) ELSE Shl1(w), n - 1)

\* the 256-entry lookup table: entry i is the remainder of i << 24
CrcTable == [i \in Byte |-> CrcShift(<<i, 0, 0, 0>>, 8)]

\* one byte of Digest::update: crc = table[(crc >> 24) ^ b] ^ (crc << 8)
CrcByte(w, b) == XorW(CrcTable[Xor8(w[1], b)], Shl8(w))

RECURSIVE CrcUpdate(_, _)
\* Digest::update(bytes)
CrcUpdate(w, bytes) ==
    IF bytes = <<>> THEN w
    ELSE CrcUpdate(CrcByte(w, Head(bytes)), Tail(bytes))

\* Digest::finalize: refout is false, so crc ^ xorout
CrcFinalize(w) == XorW(w, CrcXorOut)

\* the whole of a byte string in one update
Crc(bytes) == CrcFinalize(CrcUpdate(CrcInit, bytes))

----------------------------------------------------------------------------
(* Idle values: a specification that does not use a component keeps it here *)

NoBlock == [kind |-> "none"]
\* no such file: a value that is no byte string
NoFile == <<-1>>
NoCur == [open |-> FALSE]
NoCall == [op |-> "none"]
NoLit == [active |-> FALSE]
NoRec == [ok |-> FALSE]

IdleCrc == cInput = <<>> /\ cPos = 0 /\ cDigest = ZeroWord /\ cOut = NoWord
IdleBlk == bBytes = <<>> /\ bOut = NoBlock
IdleApp ==
    /\ old = <<>> /\ new = <<>> /\ current = NoCur
    /\ last = NoCall /\ modOpen = FALSE /\ written = <<>>
IdlePrs ==
    /\ stream = <<>> /\ pos = 0 /\ pc = "idle" /\ result = "idle"
    /\ file = NoRec /\ handler = "none"
    /\ calls = <<>> /\ lit = NoLit /\ recs = <<>>
IdleNdl ==
    /\ nStream = <<>> /\ nNeedle = <<>> /\ nPos = 0
    /\ nBuf = <<>> /\ nOffset = 0 /\ nOut = [kind |-> "idle"]
IdleFmt ==
    fFile = <<>> /\ fOffset = 0 /\ fOut = [kind |-> "idle"] /\ fScans = <<>>
IdleDec ==
    /\ eName = <<>> /\ eCipher = <<>> /\ eTaken = 0 /\ eOffset = 0 /\ eOut = <<>>
    /\ eEof = FALSE
IdleNfo ==
    /\ nfFile = <<>> /\ nfStart = 0 /\ nfPos = 0 /\ nfPc = "idle"
    /\ nfEntries = <<>> /\ nfOut = [kind |-> "idle"]
IdleIse ==
    /\ isFile = <<>> /\ isHdr = 0 /\ isPos = 0 /\ isFiles = <<>>
    /\ isOut = [kind |-> "idle"] /\ isRdr = [open |-> FALSE]
IdleExt ==
    /\ xEntries = <<>> /\ xIdx = 0 /\ xDir = <<>> /\ xFiles = <<>>
    /\ xOut = [kind |-> "idle"]
IdlePatch == IdleCrc /\ IdleBlk /\ IdleApp /\ IdlePrs
IdleXa ==
    /\ xaJobs = <<>> /\ xaKeep = FALSE /\ xaPc = <<>> /\ xaFs = <<>>
    /\ xaSeen = <<>>
IdleWz ==
    /\ wzFile = <<>> /\ wzObj = [kind |-> "idle"] /\ wzPos = 0 /\ wzLog = <<>>
IdleSetup ==
    /\ IdleNdl /\ IdleFmt /\ IdleDec /\ IdleNfo /\ IdleIse /\ IdleExt
    /\ IdleXa /\ IdleWz

----------------------------------------------------------------------------
(* wz_patch_calc_crc: read the reader to its end, digesting every chunk.    *)

\* the ASCII bytes of "123456789"
CheckVector == <<49, 50, 51, 52, 53, 54, 55, 56, 57>>

\* the longest other input, over CrcAlphabet
MaxCrcLen == 3

CrcAlphabet == {0, 65, 255}

CrcInputs == {CheckVector} \cup UNION {[1..n -> CrcAlphabet] : n \in 0..MaxCrcLen}

\* the most bytes one read() delivers (the code's buffer holds 4096)
MaxRead == 4

InitCrc ==
    /\ cInput \in CrcInputs
    /\ cPos = 0
    /\ cDigest = CrcInit
    /\ cOut = NoWord
    /\ IdleBlk /\ IdleApp /\ IdlePrs /\ IdleSetup

\* let n = r.read(&mut buf)?; n > 0: digest.update(&buf[..n])
CrcRead ==
    /\ cOut = NoWord
    /\ cPos < Len(cInput)
    /\ \E n \in 1..Min(MaxRead, Len(cInput) - cPos) :
          /\ cDigest' = CrcUpdate(cDigest, SubSeq(cInput, cPos + 1, cPos + n))
          /\ cPos' = cPos + n
    /\ UNCHANGED <<cInput, cOut, blkVars, appVars, prsVars, setupVars>>

\* n == 0: break; Ok(digest.finalize())
CrcEof ==
    /\ cOut = NoWord
    /\ cPos = Len(cInput)
    /\ cOut' = CrcFinalize(cDigest)
    /\ UNCHANGED <<cInput, cPos, cDigest, blkVars, appVars, prsVars, setupVars>>

NextCrc == CrcRead \/ CrcEof

SpecCrc == InitCrc /\ [][NextCrc]_vars

----------------------------------------------------------------------------
(* WzPatchBlock::read_options: one block of a Modify record's program.      *)

\* u32::read_options(reader, Endian::Little): None when fewer than 4 bytes are
\* left (read_exact fails), else the word, most significant byte first
ReadU32(s, at) ==
    IF Len(s) < at + 4 THEN NoWord
    ELSE <<s[at + 4], s[at + 3], s[at + 2], s[at + 1]>>

\* value >> 28
TopNibble(value) == value[1] \div 16

\* value & 0xFFFFFFF
BlockLen(value) ==
    ((value[1] % 16) * 16777216) + (value[2] * 65536) + (value[3] * 256) + value[4]

\* (value >> 8) & 0xFFFFFF: a mask one nibble too wide
RepeatLenWide(value) == (value[1] * 65536) + (value[2] * 256) + value[3]

\* (value >> 8) & 0xFFFFF
RepeatLen(value) == ((value[1] % 16) * 65536) + (value[2] * 256) + value[3]

\* (value & 0xff) as u8
RepeatByte(value) == value[4]

BlockError == [kind |-> "error"]

\* the match of read_options, arm by arm; `used` is what the reader advanced by
ReadBlock(s, at) ==
    LET value == ReadU32(s, at) IN
    IF value = NoWord THEN [blk |-> BlockError, used |-> Len(s) - at]
    ELSE CASE TopNibble(value) = 8 ->
                [blk |-> [kind |-> "NewBlock", len |-> BlockLen(value)], used |-> 4]
           [] TopNibble(value) = 12 ->
                [blk |-> [kind |-> "Repeat", byte |-> RepeatByte(value),
                          len |-> RepeatLen(value)], used |-> 4]
           [] TopNibble(value) \notin {8, 12} /\ value = ZeroWord ->
                [blk |-> [kind |-> "End"], used |-> 4]
           [] OTHER ->
                LET offset == ReadU32(s, at + 4) IN
                IF offset = NoWord THEN [blk |-> BlockError, used |-> Len(s) - at]
                ELSE [blk |-> [kind |-> "OldBlock", len |-> BlockLen(value),
                               offset |-> offset], used |-> 8]

\* the bytes tried for the control word, least significant first
BlkByte0 == {0, 16, 65, 255}
BlkByte1 == {0, 2, 255}
BlkByte2 == {0, 255}
BlkByte3 == {(n * 16) + l : n \in 0..15, l \in {0, 15}}

\* the bytes tried after the control word
BlkTails == {<<>>, <<0, 16, 0, 0>>, <<255, 255, 255, 255>>, <<0, 0, 0, 0>>}

BlkInputs ==
    {<<b0, b1, b2, b3>> \o t :
        b0 \in BlkByte0, b1 \in BlkByte1, b2 \in BlkByte2, b3 \in BlkByte3, t \in BlkTails}

InitBlk ==
    /\ bBytes \in BlkInputs
    /\ bOut = NoBlock
    /\ IdleCrc /\ IdleApp /\ IdlePrs /\ IdleSetup

\* WzPatchBlock::read_le(&mut rdr)
BlkDecode ==
    /\ bOut = NoBlock
    /\ bOut' = ReadBlock(bBytes, 0)
    /\ UNCHANGED <<bBytes, crcVars, appVars, prsVars, setupVars>>

NextBlk == BlkDecode

SpecBlk == InitBlk /\ [][NextBlk]_vars

\* the control word's fields, read off the four bytes in stream order
CtlIsZero == bBytes[1] = 0 /\ bBytes[2] = 0 /\ bBytes[3] = 0 /\ bBytes[4] = 0
CtlTop == bBytes[4] \div 16
CtlLow28 ==
    bBytes[1] + (256 * bBytes[2]) + (65536 * bBytes[3]) + (16777216 * (bBytes[4] % 16))
CtlMid20 == bBytes[2] + (256 * bBytes[3]) + (65536 * (bBytes[4] % 16))

\* C10: a control word v decodes to End when v = 0, to NewBlock{v & 0x0FFFFFFF}
\* when v >> 28 = 8, to Repeat{v & 0xFF, (v >> 8) & 0xFFFFF} when v >> 28 = 0xC,
\* and otherwise to OldBlock{v & 0x0FFFFFFF, next little-endian u32}; only the
\* OldBlock case consumes the 4 bytes after the control word.  The three
\* vectors of the claim decode as it says.
C10_BlockDecode ==
    bOut # NoBlock =>
      /\ CtlIsZero => bOut = [blk |-> [kind |-> "End"], used |-> 4]
      /\ CtlTop = 8 =>
            bOut = [blk |-> [kind |-> "NewBlock", len |-> CtlLow28], used |-> 4]
      /\ CtlTop = 12 =>
            bOut = [blk |-> [kind |-> "Repeat", byte |-> bBytes[1], len |-> CtlMid20],
                    used |-> 4]
      /\ (~CtlIsZero /\ CtlTop \notin {8, 12} /\ Len(bBytes) >= 8) =>
            bOut = [blk |-> [kind |-> "OldBlock", len |-> CtlLow28,
                             offset |-> <<bBytes[8], bBytes[7], bBytes[6], bBytes[5]>>],
                    used |-> 8]
      /\ SubSeq(bBytes, 1, 4) = <<0, 0, 0, 128>> =>
            bOut.blk = [kind |-> "NewBlock", len |-> 0]
      /\ SubSeq(bBytes, 1, 4) = <<65, 2, 0, 192>> =>
            bOut.blk = [kind |-> "Repeat", byte |-> 65, len |-> 2]
      /\ bBytes = <<16, 0, 0, 0, 0, 16, 0, 0>> =>
            bOut.blk = [kind |-> "OldBlock", len |-> 16, offset |-> <<0, 0, 16, 0>>]

\* a Repeat whose control word has bits set in 20..27, decoded
C10_Witness ==
    /\ bOut # NoBlock
    /\ bOut.blk.kind = "Repeat"
    /\ bBytes[4] = 207
    /\ bOut.blk.len = 983040

----------------------------------------------------------------------------
(* The applier: WzPatcher over the files D/p (old) and D/out/p (new).       *)
(* Opening, creating and writing an existing, named file succeeds; what     *)
(* fails is opening or removing a file that is not there, a checksum that   *)
(* does not match, and a modify callback with no Modify open.              *)

\* the paths a record may name: "a" and "b"
Paths == {<<97>>, <<98>>}

\* a u32 as a number, capped at i32::MAX (files here are far shorter)
WordToNat(w) ==
    IF w[1] >= 128 THEN 2147483647
    ELSE (w[1] * 16777216) + (w[2] * 65536) + (w[3] * 256) + w[4]

RECURSIVE Zeros(_)
Zeros(n) == IF n = 0 THEN <<>> ELSE <<0>> \o Zeros(n - 1)

\* io::repeat(b).take(len)
RepeatBytes(b, len) == [i \in 1..len |-> b]

\* Write::write_all at the file position `at` of a handle opened by File::create:
\* a position past the end leaves a gap of zeros
WriteAt(content, at, bytes) ==
    LET padded == IF Len(content) < at THEN content \o Zeros(at - Len(content))
                  ELSE content
    IN SubSeq(padded, 1, at) \o bytes
         \o SubSeq(padded, at + Len(bytes) + 1, Len(padded))

\* OldFile::block_reader(offset, len) read to its end: seek, then take(len)
OldBlockBytes(data, offset, len) ==
    LET at == WordToNat(offset) IN
    IF at >= Len(data) THEN <<>>
    ELSE SubSeq(data, at + 1, Min(at + len, Len(data)))

Call(op, ok, err, args) ==
    [op |-> op, ok |-> ok, err |-> err, args |-> args, open |-> modOpen]

\* handle_mod_end without clear_current()
KeepCurrent == current

\* WzPatcher::clear_current
ClearCurrent == NoCur

\* NewFile::write_from without digest.update
DigestSkipped(digest, bytes) == digest

\* NewFile::write_from: digest.update(&buf[..n])
DigestWritten(digest, bytes) == CrcUpdate(digest, bytes)

\* NewFile::write_from on current.new_file, the reader delivering `bytes`
WriteFrom(bytes) ==
    /\ new' = [new EXCEPT ![current.path] = WriteAt(@, current.wpos, bytes)]
    /\ current' = [current EXCEPT !.digest = DigestWritten(@, bytes),
                                  !.wpos = @ + Len(bytes)]
    /\ written' = written \o bytes

\* get_current_mut() fails: "No patch file open"
NoPatchFileOpen(op, args) ==
    /\ ~current.open
    /\ last' = Call(op, FALSE, "protocol", args)
    /\ UNCHANGED <<old, new, current, modOpen, written>>

\* WzPatcher::handle_add: File::create(resolve_new(p)), then write_from(data)
HandleAdd(p, data) ==
    /\ new' = [new EXCEPT ![p] = data]
    /\ last' = Call("add", TRUE, "none", <<p>>)
    /\ UNCHANGED <<old, current, modOpen, written>>

\* WzPatcher::handle_remove: remove_file(resolve_old(p))
HandleRemove(p) ==
    /\ IF old[p] = NoFile
       THEN /\ last' = Call("remove", FALSE, "io", <<p>>)
            /\ old' = old
       ELSE /\ last' = Call("remove", TRUE, "none", <<p>>)
            /\ old' = [old EXCEPT ![p] = NoFile]
    /\ UNCHANGED <<new, current, modOpen, written>>

\* set_current with File::create(&new) moved in front of the source check
NewFilesCreatedEarly(p) == [new EXCEPT ![p] = <<>>]

\* set_current: verify_checksum(checksum)? returns before File::create(&new)
NewFilesOnSourceMismatch(p) == new

\* WzPatcher::handle_modify, that is set_current(p, old_checksum)
HandleModify(p, oldChecksum) ==
    CASE old[p] = NoFile ->
            \* File::open(&old)? fails
            /\ last' = Call("modify", FALSE, "io", <<p, oldChecksum>>)
            /\ UNCHANGED <<old, new, current, modOpen, written>>
      [] old[p] # NoFile /\ Crc(old[p]) # oldChecksum ->
            \* old_file.verify_checksum(checksum)? fails
            /\ last' = Call("modify", FALSE, "checksum", <<p, oldChecksum>>)
            /\ new' = NewFilesOnSourceMismatch(p)
            /\ UNCHANGED <<old, current, modOpen, written>>
      [] OTHER ->
            /\ new' = [new EXCEPT ![p] = <<>>]
            /\ current' = [open |-> TRUE, path |-> p, oldData |-> old[p],
                           digest |-> CrcInit, wpos |-> 0]
            /\ modOpen' = TRUE
            /\ written' = <<>>
            /\ last' = Call("modify", TRUE, "none", <<p, oldChecksum>>)
            /\ old' = old

\* WzPatcher::handle_mod_repeat
HandleModRepeat(byte, len) ==
    \/ NoPatchFileOpen("repeat", <<>>)
    \/ /\ current.open
       /\ WriteFrom(RepeatBytes(byte, len))
       /\ last' = Call("repeat", TRUE, "none", <<>>)
       /\ UNCHANGED <<old, modOpen>>

\* WzPatcher::handle_mod_new_block, the data stream delivering `data`
HandleModNewBlock(data) ==
    \/ NoPatchFileOpen("new_block", <<>>)
    \/ /\ current.open
       /\ WriteFrom(data)
       /\ last' = Call("new_block", TRUE, "none", <<>>)
       /\ UNCHANGED <<old, modOpen>>

\* WzPatcher::handle_mod_old_block
HandleModOldBlock(offset, len) ==
    \/ NoPatchFileOpen("old_block", <<>>)
    \/ /\ current.open
       /\ WriteFrom(OldBlockBytes(current.oldData, offset, len))
       /\ last' = Call("old_block", TRUE, "none", <<>>)
       /\ UNCHANGED <<old, modOpen>>

\* WzPatcher::handle_mod_end
HandleModEnd(checksum) ==
    \/ NoPatchFileOpen("mod_end", <<checksum>>)
    \/ /\ current.open
       /\ IF CrcFinalize(current.digest) # checksum
          THEN /\ last' = Call("mod_end", FALSE, "checksum", <<checksum>>)
               /\ UNCHANGED <<current, modOpen>>
          ELSE /\ last' = Call("mod_end", TRUE, "none", <<checksum>>)
               /\ current' = ClearCurrent
               /\ modOpen' = FALSE
       /\ UNCHANGED <<old, new, written>>

----------------------------------------------------------------------------
(* The applier driven directly: any handler call, in any order.             *)

\* no file grows past this many bytes
MaxFileLen == 3

\* a checksum no file here has
JunkWord == <<222, 173, 190, 239>>

\* D holds "a" and "b"; D/out holds a "b" from before
AppOld == [p \in Paths |-> IF p = <<97>> THEN <<65, 66>> ELSE <<0>>]
AppNew == [p \in Paths |-> IF p = <<98>> THEN <<7>> ELSE NoFile]
AppAddData == {<<66>>}
AppBlockData == {<<>>, <<66>>}
AppOffsets == {ZeroWord, <<0, 0, 0, 1>>, <<128, 0, 0, 0>>}
AppLens == 0..(MaxFileLen - 1)

\* the write stays inside MaxFileLen
Room(n) == current.open => current.wpos + n <= MaxFileLen

InitApp ==
    /\ old = AppOld
    /\ new = AppNew
    /\ current = NoCur
    /\ last = NoCall
    /\ modOpen = FALSE
    /\ written = <<>>
    /\ IdleCrc /\ IdleBlk /\ IdlePrs /\ IdleSetup

AppAdd ==
    /\ \E p \in Paths, data \in AppAddData : HandleAdd(p, data)
    /\ UNCHANGED <<crcVars, blkVars, prsVars, setupVars>>

AppRemove ==
    /\ \E p \in Paths : HandleRemove(p)
    /\ UNCHANGED <<crcVars, blkVars, prsVars, setupVars>>

AppModify ==
    /\ \E p \in Paths, c \in {Crc(<<65, 66>>), JunkWord} : HandleModify(p, c)
    /\ UNCHANGED <<crcVars, blkVars, prsVars, setupVars>>

AppRepeat ==
    /\ \E len \in AppLens : Room(len) /\ HandleModRepeat(65, len)
    /\ UNCHANGED <<crcVars, blkVars, prsVars, setupVars>>

AppNewBlock ==
    /\ \E data \in AppBlockData : Room(Len(data)) /\ HandleModNewBlock(data)
    /\ UNCHANGED <<crcVars, blkVars, prsVars, setupVars>>

AppOldBlock ==
    /\ \E offset \in AppOffsets, len \in AppLens :
          Room(len) /\ HandleModOldBlock(offset, len)
    /\ UNCHANGED <<crcVars, blkVars, prsVars, setupVars>>

AppEnd ==
    /\ \E c \in {Crc(written), ZeroWord, JunkWord} : HandleModEnd(c)
    /\ UNCHANGED <<crcVars, blkVars, prsVars, setupVars>>

NextApp ==
    \/ AppAdd \/ AppRemove \/ AppModify
    \/ AppRepeat \/ AppNewBlock \/ AppOldBlock \/ AppEnd

SpecApp == InitApp /\ [][NextApp]_vars

ModOps == {"repeat", "new_block", "old_block", "mod_end"}

\* C1: with a Modify open, handle_mod_end(new_crc) succeeds exactly when the CRC
\* of all bytes written to the new file since the matching handle_modify, in
\* callback order, equals new_crc, and otherwise fails with a checksum error.
C1_ModEndChecksum ==
    (last.op = "mod_end" /\ last.open) =>
        /\ last.ok <=> (Crc(written) = last.args[1])
        /\ ~last.ok => last.err = "checksum"

\* a handle_mod_end that succeeded over bytes from a Repeat, a NewBlock and an OldBlock
C1_Witness ==
    /\ last.op = "mod_end" /\ last.open /\ last.ok
    /\ written = <<65, 66, 66>>
    /\ last.args[1] = Crc(<<65, 66, 66>>)

\* C2: handle_modify(p, old_crc, _) on an old file whose CRC is not old_crc fails
\* with a checksum error, and neither D/out (no file created or truncated) nor
\* the current patch file changes.
C2_SourceCheckFirst ==
    [][ (/\ last'.op = "modify"
         /\ old[last'.args[1]] # NoFile
         /\ Crc(old[last'.args[1]]) # last'.args[2])
        => (/\ ~last'.ok /\ last'.err = "checksum"
            /\ new' = new
            /\ current' = current) ]_vars

\* a handle_modify refused for its source checksum while another Modify is open
\* and D/out/p holds a file from before
C2_Witness ==
    /\ last.op = "modify" /\ last.err = "checksum"
    /\ new[last.args[1]] = <<7>>
    /\ current.open /\ current.path # last.args[1]

----------------------------------------------------------------------------
(* The record parser: WzPatchFile::read_options and WzPatchStream::process. *)

RECURSIVE PathEnd(_, _)
\* WzPatchFilePath::read: the index of the first byte in {0, 1, 2} after `at`,
\* or 0 when read_exact fails first
PathEnd(s, at) ==
    IF at >= Len(s) THEN 0
    ELSE IF s[at + 1] \in {0, 1, 2} THEN at + 1
    ELSE PathEnd(s, at + 1)

\* WzPatchFile::read_options: [ok |-> FALSE] on any error, else the record:
\* op 0 Add {len, checksum}, 1 Modify {old_checksum, new_checksum}, 2 Remove
ReadFile(s, at) ==
    LET e == PathEnd(s, at) IN
    IF e = 0 THEN NoRec
    ELSE LET path == SubSeq(s, at + 1, e - 1)
             w1 == ReadU32(s, e)
             w2 == ReadU32(s, e + 4)
         IN CASE s[e] = 2 ->
                   [ok |-> TRUE, path |-> path, op |-> 2, w1 |-> NoWord, w2 |-> NoWord,
                    used |-> e - at]
              [] s[e] \in {0, 1} ->
                   IF w1 = NoWord \/ w2 = NoWord THEN NoRec
                   ELSE [ok |-> TRUE, path |-> path, op |-> s[e], w1 |-> w1, w2 |-> w2,
                         used |-> (e - at) + 8]

\* the sub-stream without take(): everything that is left
DataStreamUnbounded(s, start, len) == SubSeq(s, start + 1, Len(s))

\* WzPatchDataStream over rdr.by_ref().take(len): the bytes it can deliver
DataStream(s, start, len) == SubSeq(s, start + 1, Min(start + len, Len(s)))

\* process without data.clear(): the reader stays where the handler left it
AfterNoClear(start, got, avail) == start + got

\* data.clear()?: io::copy(&mut self.rdr, &mut io::empty()) drains the take
AfterClear(start, got, avail) == start + avail

\* handle_mod_end called with the record's old checksum
EndChecksumOld(f) == f.w1

\* handler.handle_mod_end(new_checksum)
EndChecksum(f) == f.w2

Running == result = "running"

\* what a step that hands out a literal of declared length len at `start`
\* records, the handler having obtained `got` bytes
Literal(start, len, got) == [active |-> TRUE, start |-> start, len |-> len, given |-> got]

\* the ? after a handler call: an Err return ends process with that error
Returned(ok, nextPc) ==
    IF ok THEN /\ pc' = nextPc
               /\ result' = "running"
    ELSE /\ pc' = "done"
         /\ result' = "err"

\* WzPatchFile::read_le fails: break, and process returns Ok(())
PrsBreak ==
    /\ Running /\ pc = "record"
    /\ ~ReadFile(stream, pos).ok
    /\ pc' = "done"
    /\ result' = "ok"
    /\ lit' = NoLit
    /\ UNCHANGED <<stream, pos, file, handler, calls, recs, crcVars, blkVars, appVars, setupVars>>

\* WzPatchOp::AddFile { len, checksum }
PrsAdd ==
    /\ Running /\ pc = "record"
    /\ LET f == ReadFile(stream, pos) IN
       /\ f.ok /\ f.op = 0
       /\ LET start == pos + f.used
              len == WordToNat(f.w1)
              data == DataStream(stream, start, len)
          IN /\ file' = f
             /\ calls' = Append(calls, <<"add", f.path, len, start>>)
             /\ \/ /\ handler = "WzPatcher"
                   /\ HandleAdd(f.path, data)
                   /\ lit' = Literal(start, len, Len(data))
                   /\ pos' = AfterClear(start, Len(data), Min(len, Len(stream) - start))
                \/ /\ handler = "Reader"
                   /\ \E k \in 0..Len(data) :
                         /\ lit' = Literal(start, len, k)
                         /\ pos' = AfterClear(start, k, Min(len, Len(stream) - start))
                   /\ UNCHANGED appVars
             /\ Returned(TRUE, "record")
    /\ UNCHANGED <<stream, handler, recs, crcVars, blkVars, setupVars>>

\* WzPatchOp::RemoveFile
PrsRemove ==
    /\ Running /\ pc = "record"
    /\ LET f == ReadFile(stream, pos) IN
       /\ f.ok /\ f.op = 2
       /\ file' = f
       /\ pos' = pos + f.used
       /\ calls' = Append(calls, <<"remove", f.path>>)
       /\ \/ /\ handler = "WzPatcher"
             /\ HandleRemove(f.path)
             /\ Returned(last'.ok, "record")
          \/ /\ handler = "Reader"
             /\ UNCHANGED appVars
             /\ Returned(TRUE, "record")
    /\ lit' = NoLit
    /\ UNCHANGED <<stream, handler, recs, crcVars, blkVars, setupVars>>

\* WzPatchOp::ModifyFile { old_checksum, new_checksum }: handle_modify
PrsModify ==
    /\ Running /\ pc = "record"
    /\ LET f == ReadFile(stream, pos) IN
       /\ f.ok /\ f.op = 1
       /\ file' = f
       /\ pos' = pos + f.used
       /\ calls' = Append(calls, <<"modify", f.path, f.w1, f.w2>>)
       /\ \/ /\ handler = "WzPatcher"
             /\ HandleModify(f.path, f.w1)
             /\ Returned(last'.ok, "blocks")
          \/ /\ handler = "Reader"
             /\ UNCHANGED appVars
             /\ Returned(TRUE, "blocks")
    /\ lit' = NoLit
    /\ UNCHANGED <<stream, handler, recs, crcVars, blkVars, setupVars>>

\* process_blocks: WzPatchBlock::read_le(&mut self.rdr)? fails
PrsBlockError ==
    /\ Running /\ pc = "blocks"
    /\ ReadBlock(stream, pos).blk.kind = "error"
    /\ pc' = "done"
    /\ result' = "err"
    /\ lit' = NoLit
    /\ UNCHANGED <<stream, pos, file, handler, calls, recs, crcVars, blkVars, appVars, setupVars>>

\* process_blocks: WzPatchBlock::Repeat { byte, len }
PrsRepeat ==
    /\ Running /\ pc = "blocks"
    /\ LET b == ReadBlock(stream, pos) IN
       /\ b.blk.kind = "Repeat"
       /\ pos' = pos + b.used
       /\ calls' = Append(calls, <<"repeat", b.blk.byte, b.blk.len>>)
       /\ \/ /\ handler = "WzPatcher"
             /\ HandleModRepeat(b.blk.byte, b.blk.len)
             /\ Returned(last'.ok, "blocks")
          \/ /\ handler = "Reader"
             /\ UNCHANGED appVars
             /\ Returned(TRUE, "blocks")
    /\ lit' = NoLit
    /\ UNCHANGED <<stream, file, handler, recs, crcVars, blkVars, setupVars>>

\* process_blocks: WzPatchBlock::OldBlock { len, offset }
PrsOldBlock ==
    /\ Running /\ pc = "blocks"
    /\ LET b == ReadBlock(stream, pos) IN
       /\ b.blk.kind = "OldBlock"
       /\ pos' = pos + b.used
       /\ calls' = Append(calls, <<"old_block", b.blk.offset, b.blk.len>>)
       /\ \/ /\ handler = "WzPatcher"
             /\ HandleModOldBlock(b.blk.offset, b.blk.len)
             /\ Returned(last'.ok, "blocks")
          \/ /\ handler = "Reader"
             /\ UNCHANGED appVars
             /\ Returned(TRUE, "blocks")
    /\ lit' = NoLit
    /\ UNCHANGED <<stream, file, handler, recs, crcVars, blkVars, setupVars>>

\* process_blocks: WzPatchBlock::NewBlock { len }
PrsNewBlock ==
    /\ Running /\ pc = "blocks"
    /\ LET b == ReadBlock(stream, pos) IN
       /\ b.blk.kind = "NewBlock"
       /\ LET start == pos + b.used
              data == DataStream(stream, start, b.blk.len)
          IN /\ calls' = Append(calls, <<"new_block", b.blk.len, start>>)
             /\ \/ /\ handler = "WzPatcher"
                   /\ HandleModNewBlock(data)
                   /\ lit' = Literal(start, b.blk.len, IF last'.ok THEN Len(data) ELSE 0)
                   /\ pos' = IF last'.ok
                             THEN AfterClear(start, Len(data),
                                             Min(b.blk.len, Len(stream) - start))
                             ELSE start
                   /\ Returned(last'.ok, "blocks")
                \/ /\ handler = "Reader"
                   /\ \E k \in 0..Len(data) :
                         /\ lit' = Literal(start, b.blk.len, k)
                         /\ pos' = AfterClear(start, k,
                                              Min(b.blk.len, Len(stream) - start))
                   /\ UNCHANGED appVars
                   /\ Returned(TRUE, "blocks")
    /\ UNCHANGED <<stream, file, handler, recs, crcVars, blkVars, setupVars>>

\* process_blocks: WzPatchBlock::End, then handler.handle_mod_end(new_checksum)?
PrsModEnd ==
    /\ Running /\ pc = "blocks"
    /\ LET b == ReadBlock(stream, pos) IN
       /\ b.blk.kind = "End"
       /\ pos' = pos + b.used
       /\ calls' = Append(calls, <<"mod_end", EndChecksum(file)>>)
       /\ \/ /\ handler = "WzPatcher"
             /\ HandleModEnd(EndChecksum(file))
             /\ Returned(last'.ok, "record")
          \/ /\ handler = "Reader"
             /\ UNCHANGED appVars
             /\ Returned(TRUE, "record")
    /\ lit' = NoLit
    /\ UNCHANGED <<stream, file, handler, recs, crcVars, blkVars, setupVars>>

NextPrs ==
    \/ PrsBreak \/ PrsAdd \/ PrsRemove \/ PrsModify
    \/ PrsBlockError \/ PrsRepeat \/ PrsOldBlock \/ PrsNewBlock \/ PrsModEnd

----------------------------------------------------------------------------
(* The streams process is run on: written from records by the rules the     *)
(* decoders invert, whole or cut short inside the last record.              *)

\* a length as a little-endian u32
LE32(n) == <<n % 256, (n \div 256) % 256, (n \div 65536) % 256, (n \div 16777216) % 256>>

\* a word as a little-endian u32
WordLE(w) == <<w[4], w[3], w[2], w[1]>>

EncBlock(b) ==
    CASE b.kind = "Repeat" ->
            <<b.byte, b.len % 256, (b.len \div 256) % 256, 192 + (b.len \div 65536)>>
      [] b.kind = "NewBlock" ->
            <<b.len % 256, (b.len \div 256) % 256, (b.len \div 65536) % 256,
              128 + (b.len \div 16777216)>> \o b.data
      [] b.kind = "OldBlock" -> LE32(b.len) \o WordLE(b.offset)

RECURSIVE EncBlocks(_)
\* a block program and its End
EncBlocks(bs) ==
    IF bs = <<>> THEN <<0, 0, 0, 0>> ELSE EncBlock(Head(bs)) \o EncBlocks(Tail(bs))

EncRecord(r) ==
    CASE r.op = "add" -> r.path \o <<0>> \o LE32(r.len) \o WordLE(r.crc) \o r.data
      [] r.op = "modify" ->
            r.path \o <<1>> \o WordLE(r.oldc) \o WordLE(r.newc) \o EncBlocks(r.blocks)
      [] r.op = "remove" -> r.path \o <<2>>

RECURSIVE Encode(_)
Encode(rs) == IF rs = <<>> THEN <<>> ELSE EncRecord(Head(rs)) \o Encode(Tail(rs))

RECURSIVE BlockCalls(_)
BlockCalls(bs) ==
    IF bs = <<>> THEN <<>>
    ELSE LET b == Head(bs) IN
         << CASE b.kind = "Repeat" -> <<"repeat", b.byte, b.len>>
              [] b.kind = "NewBlock" -> <<"new_block", b.len>>
              [] b.kind = "OldBlock" -> <<"old_block", b.offset, b.len>> >>
         \o BlockCalls(Tail(bs))

RECURSIVE Expected(_)
\* the callbacks a list of records calls for, in order
Expected(rs) ==
    IF rs = <<>> THEN <<>>
    ELSE LET r == Head(rs) IN
         (CASE r.op = "add" -> << <<"add", r.path, r.len>> >>
            [] r.op = "remove" -> << <<"remove", r.path>> >>
            [] r.op = "modify" ->
                 << <<"modify", r.path, r.oldc, r.newc>> >> \o BlockCalls(r.blocks)
                 \o << <<"mod_end", r.newc>> >>)
         \o Expected(Tail(rs))

RECURSIVE ApplyBlocks(_, _)
\* the new file a block program describes, given the old file
ApplyBlocks(data, bs) ==
    IF bs = <<>> THEN <<>>
    ELSE LET b == Head(bs) IN
         (CASE b.kind = "Repeat" -> RepeatBytes(b.byte, b.len)
            [] b.kind = "NewBlock" -> b.data
            [] b.kind = "OldBlock" -> OldBlockBytes(data, b.offset, b.len))
         \o ApplyBlocks(data, Tail(bs))

\* the most blocks in a Modify record's program
MaxBlocks == 2

\* D holds "a" only; D/out is empty
PrsOld == [p \in Paths |-> IF p = <<97>> THEN <<65, 66>> ELSE NoFile]
PrsNew == [p \in Paths |-> NoFile]

GenBlocks ==
    { [kind |-> "Repeat", byte |-> 65, len |-> 2],
      [kind |-> "NewBlock", len |-> 2, data |-> <<66, 67>>],
      [kind |-> "OldBlock", len |-> 2, offset |-> <<0, 0, 0, 1>>] }

GenPrograms == UNION {[1..n -> GenBlocks] : n \in 0..MaxBlocks}

AddRec(p, data) ==
    [op |-> "add", path |-> p, len |-> Len(data), crc |-> Crc(data), data |-> data]

ModRec(p, oldc, newc, bs) ==
    [op |-> "modify", path |-> p, oldc |-> oldc, newc |-> newc, blocks |-> bs]

\* a Modify of "a" with both checksums as they should be
GoodMod(bs) == ModRec(<<97>>, Crc(<<65, 66>>), Crc(ApplyBlocks(<<65, 66>>, bs)), bs)

GenRecords ==
    {AddRec(<<97>>, <<66, 67>>), AddRec(<<98>>, <<68>>)}
    \cup {[op |-> "remove", path |-> p] : p \in Paths}
    \cup {GoodMod(bs) : bs \in GenPrograms}
    \cup {ModRec(<<97>>, Crc(<<65, 66>>), JunkWord, bs) : bs \in GenPrograms}
    \cup {ModRec(<<97>>, JunkWord, JunkWord, <<>>), ModRec(<<98>>, JunkWord, JunkWord, <<>>)}

\* the records tried in second place
GenTail ==
    {AddRec(<<98>>, <<68>>), [op |-> "remove", path |-> <<97>>],
     GoodMod(<<[kind |-> "Repeat", byte |-> 65, len |-> 2]>>)}

GenLists ==
    {<<>>} \cup {<<r>> : r \in GenRecords} \cup {<<r, t>> : r \in GenRecords, t \in GenTail}

\* the stream whole, or cut short inside its last record
GenStreams(rs) ==
    IF rs = <<>> THEN {<<>>}
    ELSE LET whole == Encode(rs)
             lastLen == Len(EncRecord(rs[Len(rs)]))
         IN {SubSeq(whole, 1, n) : n \in (Len(whole) - lastLen + 1)..Len(whole)}

InitPrs ==
    /\ recs \in GenLists
    /\ stream \in GenStreams(recs)
    /\ handler \in {"WzPatcher", "Reader"}
    /\ pos = 0 /\ pc = "record" /\ result = "running"
    /\ file = NoRec /\ calls = <<>> /\ lit = NoLit
    /\ old = PrsOld /\ new = PrsNew
    /\ current = NoCur /\ last = NoCall /\ modOpen = FALSE /\ written = <<>>
    /\ IdleCrc /\ IdleBlk /\ IdleSetup

SpecPrs == InitPrs /\ [][NextPrs]_vars

----------------------------------------------------------------------------
(* The parser's and the applier's contracts under process.                  *)

\* the stream is the whole of its records: it ends at a record boundary
Complete == stream = Encode(recs)

Done == pc = "done"

IsPrefix(a, b) == Len(a) <= Len(b) /\ SubSeq(b, 1, Len(a)) = a

\* a callback without the position of its literal
ProjCall(c) ==
    CASE c[1] = "add" -> <<c[1], c[2], c[3]>>
      [] c[1] = "new_block" -> <<c[1], c[2]>>
      [] OTHER -> c

Proj(cs) == [i \in 1..Len(cs) |-> ProjCall(cs[i])]

RECURSIVE Paired(_, _)
\* block callbacks and handle_mod_end come only between a handle_modify and the
\* handle_mod_end that carries its new checksum; `open` is that checksum
Paired(cs, open) ==
    IF cs = <<>> THEN TRUE
    ELSE LET c == Head(cs) IN
         CASE c[1] \in {"add", "remove"} -> open = NoWord /\ Paired(Tail(cs), NoWord)
           [] c[1] = "modify" -> open = NoWord /\ Paired(Tail(cs), c[4])
           [] c[1] \in {"repeat", "new_block", "old_block"} ->
                open # NoWord /\ Paired(Tail(cs), open)
           [] c[1] = "mod_end" -> open # NoWord /\ c[2] = open /\ Paired(Tail(cs), NoWord)

\* the next read of a record or block succeeds
NextDecodes ==
    /\ Running
    /\ \/ pc = "record" /\ ReadFile(stream, pos).ok
       \/ pc = "blocks" /\ ReadBlock(stream, pos).blk.kind # "error"

\* the handle_modify of the record being applied
LastModify == CHOOSE i \in 1..Len(calls) :
    calls[i][1] = "modify" /\ \A j \in (i + 1)..Len(calls) : calls[j][1] # "modify"

\* an earlier record of the stream already made D/out/p
MadeBefore(p) ==
    \E i \in 1..(LastModify - 1) : calls[i][1] \in {"add", "modify"} /\ calls[i][2] = p

\* C3 as claimed: when applying a Modify record with WzPatcher fails, no output
\* file of that record is left under D/out.
C3_NoPartialOutput ==
    (/\ Done /\ result = "err" /\ handler = "WzPatcher"
     /\ file.ok /\ file.op = 1 /\ ~MadeBefore(file.path))
    => new[file.path] = NoFile

\* C4 as claimed: when process with WzPatcher returns success, the file of every
\* Add record (that no later record writes again) holds exactly the len literal
\* bytes that follow the record's len and crc fields.
C4_AddExact ==
    (Done /\ result = "ok" /\ handler = "WzPatcher") =>
      \A i \in 1..Len(calls) :
        (/\ calls[i][1] = "add"
         /\ \A j \in (i + 1)..Len(calls) :
               ~(calls[j][1] \in {"add", "modify"} /\ calls[j][2] = calls[i][2]))
        => /\ new[calls[i][2]] # NoFile
           /\ Len(new[calls[i][2]]) = calls[i][3]
           /\ calls[i][4] + calls[i][3] <= Len(stream)
           /\ new[calls[i][2]] =
                 SubSeq(stream, calls[i][4] + 1, calls[i][4] + calls[i][3])

\* C5: process delivers the callbacks of the records in stream order: one
\* handle_add per Add, one handle_remove per Remove, and per Modify one
\* handle_modify, one callback per block in block order, and one handle_mod_end
\* with that record's new checksum; no block callback or handle_mod_end comes
\* outside such a pair.  What is delivered is always a prefix of that sequence,
\* it is all of it when process returns success on a whole stream, and process
\* stops short on a whole stream only when a callback failed.
C5_CallbackOrder ==
    /\ IsPrefix(Proj(calls), Expected(recs))
    /\ Paired(calls, NoWord)
    /\ (Done /\ Complete /\ result = "ok") => Proj(calls) = Expected(recs)
    /\ (Done /\ Complete /\ result = "err") => (handler = "WzPatcher" /\ ~last.ok)

\* a Modify with two blocks and a second record, all delivered
C5_Witness ==
    /\ Done /\ result = "ok" /\ Complete /\ handler = "WzPatcher"
    /\ Len(recs) = 2
    /\ recs[1].op = "modify" /\ Len(recs[1].blocks) = 2
    /\ recs[2].op = "add"
    /\ Len(calls) = 5

\* C6: the handler obtains at most len bytes from the data stream of an Add
\* record or NewBlock, however many it reads, and when the parser decodes the
\* next record or block it has consumed exactly the len literal bytes.
C6_LiteralDrained ==
    lit.active =>
      /\ lit.given <= lit.len
      /\ pos = lit.start + Min(lit.len, Len(stream) - lit.start)
      /\ NextDecodes => pos = lit.start + lit.len

\* a handler that read one of two literal bytes, the parser about to decode on
C6_Witness ==
    /\ lit.active /\ lit.len = 2 /\ lit.given = 1
    /\ NextDecodes

\* C7 as claimed: process returns success only when the stream ends exactly at
\* a record boundary.
C7_EndsAtBoundary == (Done /\ result = "ok") => Complete

----------------------------------------------------------------------------
(* Re-encoding a decoded block: the inverse of read_options' match arms.    *)

\* the control word (and, for OldBlock, the offset word) a block is written as,
\* in stream order: End is 0, NewBlock carries nibble 8 over its 28-bit len,
\* Repeat nibble 0xC over its 20-bit len and its byte, OldBlock its 28-bit len
Reencode(blk) ==
    CASE blk.kind = "End" -> <<0, 0, 0, 0>>
      [] blk.kind = "NewBlock" ->
            <<blk.len % 256, (blk.len \div 256) % 256, (blk.len \div 65536) % 256,
              128 + (blk.len \div 16777216)>>
      [] blk.kind = "Repeat" ->
            <<blk.byte, blk.len % 256, (blk.len \div 256) % 256,
              192 + (blk.len \div 65536)>>
      [] blk.kind = "OldBlock" -> LE32(blk.len) \o WordLE(blk.offset)

\* C11 as claimed: every control word the decoder accepts (with its offset
\* word in the OldBlock case) is given back by re-encoding the decoded block,
\* so no two distinct control words decode to the same block.
C11_BlockRoundTrip ==
    (bOut # NoBlock /\ bOut.blk # BlockError) =>
        Reencode(bOut.blk) = SubSeq(bBytes, 1, bOut.used)

----------------------------------------------------------------------------
(* find_needle: search a reader for a needle through a 4096-byte buffer     *)
(* that keeps the last |needle| - 1 bytes of every read in front of the     *)
(* next one.                                                                *)

BUF_SIZE == 4096

StillRunning == [kind |-> "running"]
NoneFound == [kind |-> "none"]
\* Some(ix); a negative ix stands for the u64 2^64 + ix, the wrapped value
SomeAt(ix) == [kind |-> "some", ix |-> ix]
\* the overflow check of a debug build fired
Panicked == [kind |-> "panic"]

\* memmem's Finder::find: the first index (from 0) at which the needle starts
\* in the haystack, -1 for None
Find(hay, pat) ==
    LET at == {i \in 0..(Len(hay) - Len(pat)) :
                  hay[i + 1] = pat[1] /\ SubSeq(hay, i + 1, i + Len(pat)) = pat}
    IN IF at = {} THEN -1 ELSE CHOOSE i \in at : \A j \in at : i <= j

\* let overlap = needle.len() - 1
Overlap(pat) == Len(pat) - 1

\* a - b on u64: the difference, or on underflow a panic (overflow checks on)
\* or the wrapped value (overflow checks off)
SubU64(a, b) == IF a >= b THEN {SomeAt(a - b)} ELSE {Panicked, SomeAt(a - b)}

\* the longest needle and the longest stream tried, over NdlAlphabet
MaxNeedleLen == 3
MaxStreamLen == 5
NdlAlphabet == {0, 65}

NdlNeedles == UNION {[1..n -> NdlAlphabet] : n \in 1..MaxNeedleLen}
NdlStreams == UNION {[1..n -> NdlAlphabet] : n \in 0..MaxStreamLen}

\* let mut buffer = [0; BUF_SIZE]; let mut offset = 0; let mut n = overlap;
InitNdl ==
    /\ nNeedle \in NdlNeedles
    /\ nStream \in NdlStreams
    /\ nPos = 0
    /\ nBuf = Zeros(Overlap(nNeedle))
    /\ nOffset = 0
    /\ nOut = StillRunning
    /\ IdlePatch /\ IdleFmt /\ IdleDec /\ IdleNfo /\ IdleIse /\ IdleExt
    /\ IdleXa /\ IdleWz

ndlOthers == <<patchVars, fmtVars, decVars, nfoVars, iseVars, extVars, xaVars, wzVars>>

\* one turn of the loop in which reader.read delivers `read` > 0 bytes
NdlRead ==
    /\ nOut = StillRunning
    /\ \E read \in 1..Min(Len(nStream) - nPos, BUF_SIZE - Len(nBuf)) :
         LET buf == nBuf \o SubSeq(nStream, nPos + 1, nPos + read)
             n == Len(buf)
             found == Find(buf, nNeedle)
         IN /\ nPos' = nPos + read
            /\ IF n < Len(nNeedle)
               THEN nBuf' = buf /\ UNCHANGED <<nOffset, nOut>>
               ELSE IF found >= 0
               THEN /\ nOut' \in SubU64(nOffset + found, Overlap(nNeedle))
                    /\ nBuf' = buf
                    /\ UNCHANGED nOffset
               ELSE /\ nOffset' = nOffset + (n - Overlap(nNeedle))
                    /\ nBuf' = SubSeq(buf, n - Overlap(nNeedle) + 1, n)
                    /\ UNCHANGED nOut
    /\ UNCHANGED <<nStream, nNeedle, ndlOthers>>

\* reader.read returns 0: the stream has ended
NdlEof ==
    /\ nOut = StillRunning
    /\ nPos = Len(nStream)
    /\ nOut' = NoneFound
    /\ UNCHANGED <<nStream, nNeedle, nPos, nBuf, nOffset, ndlOthers>>

NextNdl == NdlRead \/ NdlEof

SpecNdl == InitNdl /\ [][NextNdl]_vars

\* where the needle occurs in the stream, from 0
Occurrences(hay, pat) ==
    {i \in 0..(Len(hay) - Len(pat)) :
        hay[i + 1] = pat[1] /\ SubSeq(hay, i + 1, i + Len(pat)) = pat}

\* C12 as claimed: for every stream and every needle of 1 to 4096 bytes, under
\* reads of any sizes, find_needle returns Some(i) for the smallest i at which
\* the needle occurs in the stream, and None exactly when it occurs nowhere.
C12_FindNeedle ==
    nOut.kind \notin {"idle", "running"} =>
        LET occ == Occurrences(nStream, nNeedle) IN
        IF occ = {} THEN nOut = NoneFound
        ELSE nOut = SomeAt(CHOOSE i \in occ : \A j \in occ : i <= j)

----------------------------------------------------------------------------
(* find_padding_data and SetupFormat::from_reader.  The sentinel, the two   *)
(* magics, the 16-byte chunk and the 16-byte step are the code's; the       *)
(* 4096-byte look-ahead buffer and the 40 MiB MAX_PE_SIZE are scaled down   *)
(* to PadBufLen and MAX_PE_SIZE so that a file reaches past both.           *)

\* b"PADDINGXXPADDING"
PAT == <<80, 65, 68, 68, 73, 78, 71, 88, 88, 80, 65, 68, 68, 73, 78, 71>>
\* b"NFO300"
MagicNfo == <<78, 70, 79, 51, 48, 48>>
\* b"InstallShield"
MagicIs == <<73, 110, 115, 116, 97, 108, 108, 83, 104, 105, 101, 108, 100>>

\* the length of `buf` in find_padding_data (4096 in the code)
PadBufLen == 48
\* MAX_PE_SIZE (40 * 1024 * 1024 in the code)
MAX_PE_SIZE == 80

IoError == [kind |-> "err", why |-> "io"]
NoPadding == [kind |-> "err", why |-> "Could not find padding data"]

StartsWith(s, prefix) == Len(s) >= Len(prefix) /\ SubSeq(s, 1, Len(prefix)) = prefix

RECURSIVE FindNeedleLoop(_, _, _, _, _)
\* find_needle over a reader that fills the buffer at every read: the set of
\* its possible results
FindNeedleLoop(s, pat, at, buf0, offset) ==
    IF at = Len(s) THEN {NoneFound}
    ELSE LET read == Min(Len(s) - at, BUF_SIZE - Len(buf0))
             buf == buf0 \o SubSeq(s, at + 1, at + read)
             n == Len(buf)
             found == Find(buf, pat)
         IN IF n < Len(pat) THEN FindNeedleLoop(s, pat, at + read, buf, offset)
            ELSE IF found >= 0 THEN SubU64(offset + found, Overlap(pat))
            ELSE FindNeedleLoop(s, pat, at + read,
                                SubSeq(buf, n - Overlap(pat) + 1, n),
                                offset + (n - Overlap(pat)))

FindNeedle(s, pat) == FindNeedleLoop(s, pat, 0, Zeros(Overlap(pat)), 0)

\* reader.take(limit) on a reader at `from`: the bytes it can deliver; a
\* negative limit stands for the wrapped u64, which is past every file
Take(s, from, limit) ==
    IF from >= Len(s) THEN <<>>
    ELSE IF limit < 0 THEN SubSeq(s, from + 1, Len(s))
    ELSE SubSeq(s, from + 1, Min(Len(s), from + limit))

\* buf.chunks(16): chunk i, from 0; the last one may be short
Chunk(buf, i) == SubSeq(buf, (16 * i) + 1, Min(Len(buf), 16 * (i + 1)))

\* .zip(PAT.iter()).position(|(a, b)| a != b).unwrap_or(0)
Strip(chunk) ==
    LET diff == {j \in 0..(Len(chunk) - 1) : chunk[j + 1] # PAT[j + 1]}
    IN IF diff = {} THEN 0 ELSE CHOOSE j \in diff : \A k \in diff : j <= k

\* the for loop over buf.chunks(16)
PadEnd(buf, padIx) ==
    LET count == (Len(buf) + 15) \div 16
        odd == {i \in 0..(count - 1) : Chunk(buf, i) # PAT}
    IN IF odd = {} THEN NoneFound
       ELSE LET i == CHOOSE i \in odd : \A k \in odd : i <= k
            IN SomeAt(padIx + (16 * i) + Strip(Chunk(buf, i)))

\* find_padding_data(reader, offset, limit), the reader being at `offset`
FindPaddingData(s, offset, limit) ==
    {IF r.kind # "some" THEN r
     ELSE LET padIx == offset + r.ix IN
          IF padIx < 0 \/ Len(s) < padIx + PadBufLen THEN IoError
          ELSE PadEnd(SubSeq(s, padIx + 1, padIx + PadBufLen), padIx)
       : r \in FindNeedle(Take(s, offset, limit), PAT)}

\* the installers tried: up to MaxSegs pieces, then nothing or PadBufLen dots
MaxSegs == 6
Dots(n) == [i \in 1..n |-> 46]
\* the sentinel, its first three bytes, and each magic filled up to 16 bytes
FmtPieces == {PAT, <<80, 65, 68>>, MagicNfo \o Dots(10), MagicIs \o Dots(3)}
RECURSIVE Concat(_)
Concat(ps) == IF ps = <<>> THEN <<>> ELSE Head(ps) \o Concat(Tail(ps))
FmtBodies == {Concat(ps) : ps \in UNION {[1..n -> FmtPieces] : n \in 0..MaxSegs}}
FmtFiles == {b \o t : b \in FmtBodies, t \in {<<>>, Dots(PadBufLen)}}

InitFmt ==
    /\ fFile \in FmtFiles
    /\ fOffset = 0
    /\ fOut = StillRunning
    /\ fScans = <<>>
    /\ IdlePatch /\ IdleNdl /\ IdleDec /\ IdleNfo /\ IdleIse /\ IdleExt
    /\ IdleXa /\ IdleWz

fmtOthers == <<patchVars, ndlVars, decVars, nfoVars, iseVars, extVars, xaVars, wzVars>>

\* MAX_PE_SIZE - offset underflows: the panic of a build with overflow checks
FmtOverflow ==
    /\ fOut = StillRunning
    /\ Panicked \in SubU64(MAX_PE_SIZE, fOffset)
    /\ fOut' = Panicked
    /\ UNCHANGED <<fFile, fOffset, fScans, fmtOthers>>

\* find_padding_data fails, or finds nothing: from_reader returns the error
FmtFail ==
    /\ fOut = StillRunning
    /\ \E lim \in SubU64(MAX_PE_SIZE, fOffset) :
         /\ lim.kind = "some"
         /\ \E r \in FindPaddingData(fFile, fOffset, lim.ix) :
              /\ r.kind # "some"
              /\ fOut' = IF r = NoneFound THEN NoPadding ELSE r
         /\ fScans' = Append(fScans, <<fOffset, lim.ix>>)
    /\ UNCHANGED <<fFile, fOffset, fmtOthers>>

\* a padding region ends at ix: read the 16 bytes there and classify them
FmtProbe ==
    /\ fOut = StillRunning
    /\ \E lim \in SubU64(MAX_PE_SIZE, fOffset) :
         /\ lim.kind = "some"
         /\ \E r \in FindPaddingData(fFile, fOffset, lim.ix) :
              /\ r.kind = "some"
              /\ LET ix == r.ix
                     magic == SubSeq(fFile, ix + 1, ix + 16)
                 IN IF Len(fFile) < ix + 16
                    THEN fOut' = IoError /\ UNCHANGED fOffset
                    ELSE IF StartsWith(magic, MagicNfo)
                    THEN fOut' = [kind |-> "NFO300", ix |-> ix] /\ UNCHANGED fOffset
                    ELSE IF StartsWith(magic, MagicIs)
                    THEN fOut' = [kind |-> "InstallShield", ix |-> ix]
                         /\ UNCHANGED fOffset
                    ELSE fOffset' = ix + 16 /\ UNCHANGED fOut
         /\ fScans' = Append(fScans, <<fOffset, lim.ix>>)
    /\ UNCHANGED <<fFile, fmtOthers>>

NextFmt == FmtOverflow \/ FmtFail \/ FmtProbe

SpecFmt == InitFmt /\ [][NextFmt]_vars

\* the end of the padding that starts with the sentinel at s: the first byte
\* from s on that leaves the repeated sentinel
RECURSIVE RunEnd(_, _, _)
RunEnd(f, s, k) ==
    IF s + k >= Len(f) \/ f[s + k + 1] # PAT[(k % 16) + 1] THEN s + k
    ELSE RunEnd(f, s, k + 1)

MagicAt(f, q) ==
    IF StartsWith(SubSeq(f, q + 1, Len(f)), MagicNfo) THEN "NFO300"
    ELSE IF StartsWith(SubSeq(f, q + 1, Len(f)), MagicIs) THEN "InstallShield"
    ELSE "none"

\* the padding regions of the file that a known magic follows: where they end
Qualifying(f) ==
    {q \in {RunEnd(f, s, 0) : s \in Occurrences(f, PAT)} : MagicAt(f, q) # "none"}

\* C13 as claimed: from_reader returns NFO300(ix) or InstallShield(ix) only
\* when a padding-sentinel run ends at ix and the bytes at ix begin with that
\* magic, and the region it returns is the first such region of the file.
C13_FirstQualifying ==
    fOut.kind \in {"NFO300", "InstallShield"} =>
        /\ fOut.ix \in Qualifying(fFile)
        /\ MagicAt(fFile, fOut.ix) = fOut.kind
        /\ \A q \in Qualifying(fFile) : fOut.ix <= q

\* C14 as claimed: every retry scans from a larger offset, no search window
\* reaches past MAX_PE_SIZE (MAX_PE_SIZE - offset is never negative), and the
\* call returns a failure when no padding region with a known magic lies in
\* the window.
C14_BoundedScan ==
    /\ fOut # Panicked
    /\ \A i \in 1..Len(fScans) :
         /\ fScans[i][2] >= 0
         /\ fScans[i][1] + fScans[i][2] <= MAX_PE_SIZE
         /\ i > 1 => fScans[i][1] > fScans[i - 1][1]
    /\ (fOut.kind \in {"NFO300", "InstallShield"}) => Qualifying(fFile) # {}

----------------------------------------------------------------------------
(* The InstallShield EntryReader: the payload is decoded as it is read,     *)
(* with a key made from the entry's file name.                              *)

\* const MAGIC: [u8; 4] = [0x13, 0x35, 0x86, 0x07]
KeyMagic == <<19, 53, 134, 7>>

\* gen_key: *k ^= MAGIC[i % 4]
GenKey(name) == [i \in 1..Len(name) |-> Xor8(name[i], KeyMagic[((i - 1) % 4) + 1])]

\* b.rotate_right(4)
Ror4(b) == (b \div 16) + ((b % 16) * 16)

\* k ^ b.rotate_right(4): the complement left out
DecodeByteNoNot(b, k) == Xor8(k, Ror4(b))

\* !(k ^ b.rotate_right(4))
DecodeByte(b, k) == 255 - Xor8(k, Ror4(b))

\* decode_data(data, key, offset)
DecodeData(data, key, offset) ==
    [i \in 1..Len(data) |-> DecodeByte(data[i], key[((i - 1 + offset) % Len(key)) + 1])]

\* the block size of EntryReader::read
BlockSize == 1024

RECURSIVE DecodeBlocks(_, _, _, _)
\* `for block in 0..(read / 1024)` from `block` on, then the remainder of the read
DecodeBlocks(buf, key, decOffset, block) ==
    LET start == block * BlockSize IN
    IF block < Len(buf) \div BlockSize
    THEN DecodeData(SubSeq(buf, start + 1, start + BlockSize), key, decOffset)
            \o DecodeBlocks(buf, key, decOffset, block + 1)
    ELSE DecodeData(SubSeq(buf, start + 1, Len(buf)), key, decOffset)

\* the longest payload tried
MaxEntryLen == 1030
\* "x" and "abc"
EntNames == {<<120>>, <<97, 98, 99>>}
\* short payloads over 0x5B and 0x5D, and one that is longer than a block
EntShort == UNION {[1..n -> {91, 93}] : n \in 0..2}
EntLong == [p \in 1..MaxEntryLen |-> ((p * 7) + 3) % 256]
EntCases ==
    {<<name, c>> : name \in EntNames, c \in EntShort} \cup {<<<<97, 98, 99>>, EntLong>>}
\* how many bytes the reader below delivers to one read, if it has as many
EntReads == {1, 1024, 1025, 2048}

\* entry_reader: EntryReader { reader: take(file_len), key, offset: 0 }
InitDec ==
    /\ \E c \in EntCases : eName = c[1] /\ eCipher = c[2]
    /\ eTaken = 0
    /\ eOffset = 0
    /\ eOut = <<>>
    /\ eEof = FALSE
    /\ IdlePatch /\ IdleNdl /\ IdleFmt /\ IdleNfo /\ IdleIse /\ IdleExt
    /\ IdleXa /\ IdleWz

decOthers == <<patchVars, ndlVars, fmtVars, nfoVars, iseVars, extVars, xaVars, wzVars>>

\* EntryReader::read into a buffer of which the reader below fills `read` bytes
EntryRead ==
    /\ ~eEof
    /\ \E read \in {Min(want, Len(eCipher) - eTaken) : want \in EntReads} :
        LET buf == SubSeq(eCipher, eTaken + 1, eTaken + read)
            decOffset == eOffset % BlockSize
        IN /\ read > 0
           /\ eTaken' = eTaken + read
           /\ eOffset' = eOffset + read
           /\ eOut' = eOut \o DecodeBlocks(buf, GenKey(eName), decOffset, 0)
    /\ UNCHANGED <<eName, eCipher, eEof, decOthers>>

\* the reader below is at its end: read returns Ok(0)
EntryEof ==
    /\ ~eEof
    /\ eTaken = Len(eCipher)
    /\ eEof' = TRUE
    /\ UNCHANGED <<eName, eCipher, eTaken, eOffset, eOut, decOthers>>

NextDec == EntryRead \/ EntryEof

SpecDec == InitDec /\ [][NextDec]_vars

\* C15 as claimed: the byte at position p of the payload is decoded as
\* NOT(key[p mod |key|] XOR ROR(b, 4)); n decoded bytes consume n ciphertext
\* bytes and advance the key index by n, which never resets inside the entry,
\* 1024-byte block boundaries included.
C15_KeyStream ==
    /\ Len(eOut) = eTaken
    /\ eOffset = eTaken
    /\ \A p \in 1..Len(eOut) :
         eOut[p] = DecodeByte(eCipher[p], GenKey(eName)[((p - 1) % Len(eName)) + 1])

\* C16 as claimed: for the file name "x" the key byte is 0x6B, and the
\* ciphertext byte 0x5B decodes to the plaintext byte 0x41 under it.
C16_VectorAsClaimed ==
    (eName = <<120>> /\ eCipher = <<91>> /\ eOut # <<>>) =>
        GenKey(eName) = <<107>> /\ eOut = <<65>>

\* C16: for the file name "x" the key byte is 0x78 XOR 0x13 = 0x6B; under it
\* the ciphertext byte 0x5D decodes to the plaintext byte 0x41, and the
\* ciphertext byte 0x5B to 0x21.
C16_Vector ==
    (eName = <<120>> /\ eOut # <<>>) =>
        /\ GenKey(eName) = <<107>>
        /\ eCipher = <<93>> => eOut = <<65>>
        /\ eCipher = <<91>> => eOut = <<33>>

\* the entry "x" with the payload 0x5D, read
C16_Witness == eName = <<120>> /\ eCipher = <<93>> /\ eOut = <<65>>

----------------------------------------------------------------------------
(* Nfo300Setup::entries: the marker line, then a table of lines that start  *)
(* with a quote, then the payloads.  Bytes are ASCII.                       *)

Quote == 34
Comma == 44
NewLine == 10

\* the limit of `limited`: self.reader.by_ref().take(1000)
NfoLimit == 1000

\* char::is_whitespace on ASCII: tab, LF, VT, FF, CR, space
WhiteSpace == {9, 10, 11, 12, 13, 32}

RECURSIVE TrimStartSet(_, _)
TrimStartSet(s, set) ==
    IF s # <<>> /\ Head(s) \in set THEN TrimStartSet(Tail(s), set) ELSE s
RECURSIVE TrimEndSet(_, _)
TrimEndSet(s, set) ==
    IF s # <<>> /\ s[Len(s)] \in set THEN TrimEndSet(SubSeq(s, 1, Len(s) - 1), set)
    ELSE s

\* str::trim
Trim(s) == TrimEndSet(TrimStartSet(s, WhiteSpace), WhiteSpace)
\* str::trim_matches('"')
TrimMatches(s) == TrimEndSet(TrimStartSet(s, {Quote}), {Quote})

NoSplit == [ok |-> FALSE]
\* str::split_once(','): what is before and after the first comma
SplitOnce(s) ==
    LET at == {i \in 1..Len(s) : s[i] = Comma} IN
    IF at = {} THEN NoSplit
    ELSE LET i == CHOOSE i \in at : \A j \in at : i <= j
         IN [ok |-> TRUE, before |-> SubSeq(s, 1, i - 1),
             after |-> SubSeq(s, i + 1, Len(s))]

Digits == 48..57
I32Max == 2147483647

RECURSIVE DigitsValue(_, _)
\* the value of a digit string if it is at most i32::MAX; -1 for 2^31, -2 above
DigitsValue(s, acc) ==
    IF s = <<>> THEN acc
    ELSE LET d == Head(s) - 48
             next == IF acc < 0 \/ acc > 214748364 THEN -2
                     ELSE IF acc < 214748364 \/ d <= 7 THEN (acc * 10) + d
                     ELSE IF d = 8 THEN -1 ELSE -2
         IN DigitsValue(Tail(s), next)

NoInt == [ok |-> FALSE]
IntOf(v) == [ok |-> TRUE, v |-> v]
\* str::parse::<i32>: an optional sign, then one or more digits, in range
ParseI32(s) ==
    LET neg == s # <<>> /\ Head(s) = 45
        signed == s # <<>> /\ Head(s) \in {43, 45}
        ds == IF signed THEN Tail(s) ELSE s
        v == DigitsValue(ds, 0)
    IN IF ds = <<>> \/ \E i \in 1..Len(ds) : ds[i] \notin Digits THEN NoInt
       ELSE IF v = -2 THEN NoInt
       ELSE IF neg THEN (IF v = -1 THEN IntOf((0 - I32Max) - 1) ELSE IntOf(0 - v))
       ELSE IF v = -1 THEN NoInt ELSE IntOf(v)

\* where the bytes that `limited` can still deliver end
NfoWindowEnd(s, start) == Min(Len(s), start + NfoLimit)

\* BufRead::read_line on `limited` at `from`: the position after the line,
\* which ends with its LF, or where the reader ends
LineEnd(s, from, windowEnd) ==
    LET lf == {j \in (from + 1)..windowEnd : s[j] = NewLine} IN
    IF lf = {} THEN windowEnd ELSE CHOOSE j \in lf : \A k \in lf : j <= k

NfoError == [kind |-> "err"]

\* the loop's body with the second field taken as the size and the third as
\* the checksum
ParseEntrySwapped(line) ==
    LET first == SplitOnce(Trim(line)) IN
    IF ~first.ok THEN NfoError
    ELSE LET second == SplitOnce(first.after) IN
         IF ~second.ok THEN NfoError
         ELSE LET size == ParseI32(TrimMatches(second.before))
                  checksum == ParseI32(TrimMatches(second.after))
              IN IF ~size.ok \/ ~checksum.ok THEN NfoError
                 ELSE [kind |-> "entry", name |-> TrimMatches(first.before),
                       size |-> size.v, checksum |-> checksum.v, offset |-> 0]

\* the body of the while loop on one line: the entry, or the error
ParseEntry(line) ==
    LET first == SplitOnce(Trim(line)) IN
    IF ~first.ok THEN NfoError
    ELSE LET second == SplitOnce(first.after) IN
         IF ~second.ok THEN NfoError
         ELSE LET size == ParseI32(TrimMatches(second.after))
                  checksum == ParseI32(TrimMatches(second.before))
              IN IF ~size.ok \/ ~checksum.ok THEN NfoError
                 ELSE [kind |-> "entry", name |-> TrimMatches(first.before),
                       size |-> size.v, checksum |-> checksum.v, offset |-> 0]

\* data_offset += entry.size as u64: a negative size is a huge u64, and the sum
\* overflows when it comes out at or above 2^64
AddSize(offset, size) ==
    IF size < 0 /\ offset + size >= 0 THEN {Panicked, SomeAt(offset + size)}
    ELSE {SomeAt(offset + size)}

NfoOk(es) == [kind |-> "ok", entries |-> es]

RECURSIVE AssignOffsets(_, _)
\* the for loop over &mut entries: the possible results
AssignOffsets(es, dataOffset) ==
    IF es = <<>> THEN {NfoOk(<<>>)}
    ELSE LET e == [Head(es) EXCEPT !.offset = dataOffset] IN
         UNION {IF next = Panicked THEN {Panicked}
                ELSE {IF rest = Panicked THEN Panicked
                      ELSE NfoOk(<<e>> \o rest.entries)
                        : rest \in AssignOffsets(Tail(es), next.ix)}
                  : next \in AddSize(dataOffset, e.size)}

\* the installers tried: filler up to nfo_offset, the marker line, up to
\* MaxLines lines, and what follows them
MaxLines == 3
\* "NFO300\r\n"
NfoMarkerLine == <<78, 70, 79, 51, 48, 48, 13, 10>>
NfoLines ==
    { <<34, 97, 34, 44, 34, 49, 34, 44, 34, 52, 34, 13, 10>>,        \* "a","1","4" CR LF
      <<34, 98, 34, 44, 34, 45, 50, 34, 44, 34, 48, 34, 10>>,        \* "b","-2","0" LF
      <<34, 99, 34, 44, 34, 48, 34, 44, 34, 45, 49, 34, 10>>,        \* "c","0","-1" LF
      <<34, 97, 34, 44, 34, 49, 34, 10>>,                            \* "a","1" LF
      <<34, 97, 34, 44, 34, 49, 34, 44, 34, 50, 34, 44, 34, 51, 34, 10>>, \* "a","1","2","3" LF
      <<34, 97, 34, 44, 49, 44, 50, 10>>,                            \* "a",1,2 LF
      <<34, 97, 34, 44, 34, 120, 34, 44, 34, 50, 34, 10>>,           \* "a","x","2" LF
      <<34, 97, 34, 44, 34, 49, 34, 44, 34, 50, 34>>,                \* "a","1","2" and no LF
      <<0, 1, 10>> }                                                 \* payload bytes
NfoTables == {Concat(ls) : ls \in UNION {[1..n -> NfoLines] : n \in 0..MaxLines}}
NfoFiles ==
    {[start |-> Len(junk), bytes |-> junk \o NfoMarkerLine \o t \o tail] :
        junk \in {<<>>, <<0, 34>>}, t \in NfoTables, tail \in {<<>>, <<7, 7>>}}

InitNfo ==
    /\ \E f \in NfoFiles : nfFile = f.bytes /\ nfStart = f.start
    /\ nfPos = nfStart
    /\ nfPc = "marker"
    /\ nfEntries = <<>>
    /\ nfOut = StillRunning
    /\ IdlePatch /\ IdleNdl /\ IdleFmt /\ IdleDec /\ IdleIse /\ IdleExt
    /\ IdleXa /\ IdleWz

nfoOthers == <<patchVars, ndlVars, fmtVars, decVars, iseVars, extVars, xaVars, wzVars>>

\* limited.read_line(&mut line): skip the marker line
NfoMarker ==
    /\ nfPc = "marker"
    /\ nfPos' = LineEnd(nfFile, nfPos, NfoWindowEnd(nfFile, nfStart))
    /\ nfPc' = "table"
    /\ UNCHANGED <<nfFile, nfStart, nfEntries, nfOut, nfoOthers>>

\* limited.fill_buf()?[0] on an empty buffer: the index is out of bounds
NfoPanic ==
    /\ nfPc = "table"
    /\ nfPos >= NfoWindowEnd(nfFile, nfStart)
    /\ nfOut' = Panicked
    /\ nfPc' = "done"
    /\ UNCHANGED <<nfFile, nfStart, nfPos, nfEntries, nfoOthers>>

\* one turn of the while loop: a line that starts with a quote
NfoLine ==
    /\ nfPc = "table"
    /\ nfPos < NfoWindowEnd(nfFile, nfStart)
    /\ nfFile[nfPos + 1] = Quote
    /\ LET end == LineEnd(nfFile, nfPos, NfoWindowEnd(nfFile, nfStart))
           e == ParseEntry(SubSeq(nfFile, nfPos + 1, end))
       IN /\ nfPos' = end
          /\ IF e = NfoError
             THEN nfOut' = NfoError /\ nfPc' = "done" /\ UNCHANGED nfEntries
             ELSE nfEntries' = Append(nfEntries, e) /\ UNCHANGED <<nfOut, nfPc>>
    /\ UNCHANGED <<nfFile, nfStart, nfoOthers>>

\* the loop ends at a line that does not start with a quote: the offsets
NfoFinish ==
    /\ nfPc = "table"
    /\ nfPos < NfoWindowEnd(nfFile, nfStart)
    /\ nfFile[nfPos + 1] # Quote
    /\ nfOut' \in AssignOffsets(nfEntries, nfPos)
    /\ nfEntries' = IF nfOut'.kind = "ok" THEN nfOut'.entries ELSE nfEntries
    /\ nfPc' = "done"
    /\ UNCHANGED <<nfFile, nfStart, nfPos, nfoOthers>>

NextNfo == NfoMarker \/ NfoPanic \/ NfoLine \/ NfoFinish

SpecNfo == InitNfo /\ [][NextNfo]_vars

----------------------------------------------------------------------------
(* The table as the format describes it, to hold entries() against.        *)

\* the position after the marker line
AfterMarker == LineEnd(nfFile, nfStart, Len(nfFile))

RECURSIVE TableLines(_, _)
\* the lines from `at` on that start with a quote, up to the first that does not
TableLines(f, at) ==
    IF at < Len(f) /\ f[at + 1] = Quote
    THEN LET end == LineEnd(f, at, Len(f))
         IN <<SubSeq(f, at + 1, end)>> \o TableLines(f, end)
    ELSE <<>>

RECURSIVE SplitAll(_)
\* the fields between the commas of a line
SplitAll(s) ==
    LET first == SplitOnce(s) IN
    IF ~first.ok THEN <<s>> ELSE <<first.before>> \o SplitAll(first.after)

\* a line without its CR LF or LF
Chomp(line) == TrimEndSet(line, {NewLine, 13})

\* enclosed in one pair of double quotes
Quoted(field) ==
    /\ Len(field) >= 2
    /\ field[1] = Quote /\ field[Len(field)] = Quote
    /\ \A i \in 2..(Len(field) - 1) : field[i] # Quote

Inner(field) == SubSeq(field, 2, Len(field) - 1)

\* exactly three double-quoted fields, the last two signed 32-bit decimals
WellFormed(line) ==
    LET fs == SplitAll(Chomp(line)) IN
    /\ Len(fs) = 3
    /\ \A i \in 1..3 : Quoted(fs[i])
    /\ ParseI32(Inner(fs[2])).ok
    /\ ParseI32(Inner(fs[3])).ok

\* C17: entries() skips the marker line, reads one entry per following line
\* that starts with a quote (name, checksum, size in that order), stops at the
\* first line that does not, without consuming it, takes the position reached
\* there as the payload start, and gives the entries contiguous offsets from
\* it: offset_0 = payload start, offset_{i+1} = offset_i + size_i.
C17_TableAndOffsets ==
    nfOut.kind = "ok" =>
        LET es == nfOut.entries
            lines == TableLines(nfFile, AfterMarker)
            start == AfterMarker + Len(Concat(lines))
        IN /\ Len(es) = Len(lines)
           /\ nfPos = start
           /\ start < Len(nfFile) /\ nfFile[start + 1] # Quote
           /\ \A i \in 1..Len(es) :
                /\ es[i].offset = IF i = 1 THEN start
                                  ELSE es[i - 1].offset + es[i - 1].size
                /\ WellFormed(lines[i]) =>
                     LET fs == SplitAll(Chomp(lines[i])) IN
                     /\ es[i].name = Inner(fs[1])
                     /\ es[i].checksum = ParseI32(Inner(fs[2])).v
                     /\ es[i].size = ParseI32(Inner(fs[3])).v

\* a table of two entries behind two bytes of filler: a of size 4, then b
C17_Witness ==
    /\ nfOut.kind = "ok"
    /\ nfStart = 2
    /\ Len(nfOut.entries) = 2
    /\ nfOut.entries[1].name = <<97>> /\ nfOut.entries[1].size = 4
    /\ nfOut.entries[1].checksum = 1
    /\ nfOut.entries[2].name = <<98>>
    /\ nfOut.entries[2].offset = nfOut.entries[1].offset + 4

\* C18 as claimed: entries() fails with an error on any table line that is
\* not exactly three double-quoted comma-separated fields (too few or too
\* many fields, a field without its quotes, a checksum or size that is no
\* signed 32-bit decimal).
C18_MalformedRejected ==
    LET lines == TableLines(nfFile, AfterMarker) IN
    (nfPc = "done" /\ \E i \in 1..Len(lines) : ~WellFormed(lines[i])) =>
        nfOut = NfoError

----------------------------------------------------------------------------
(* IsSetup: the header, then for every file a record and its payload.       *)

\* size_of::<IsHeader>(): 14 + 2 + 4 + 8 + 2 + 16, packed
IsHeaderSize == 46
\* size_of::<IsFileAttributes>(): 260 + 4 + 4 + 4 + 8 + 2 + 30, packed
IsAttrSize == 312
\* FilePath: [u8; 260]
FilePathLen == 260
\* where num_files lies in the header, and file_len in a record
NumFilesAt == 14
FileLenAt == 268

\* a little-endian u16 and u32 at byte offset `at` of s (small values)
U16At(s, at) == s[at + 1] + (256 * s[at + 2])
U32At(s, at) == WordToNat(<<s[at + 4], s[at + 3], s[at + 2], s[at + 1]>>)

\* the bytes of a [u8; 260] before its first NUL
UntilNul(path) ==
    LET nul == {i \in 1..Len(path) : path[i] = 0}
        first == CHOOSE i \in nul : \A j \in nul : i <= j
    IN SubSeq(path, 1, first - 1)

\* SeekFrom::Start(len) in place of SeekFrom::Current(len)
SeekStart(at, len) == len

\* self.rdr.seek(SeekFrom::Current(len as i64))
SeekCurrent(at, len) == at + len

IseError == [kind |-> "err"]
IseOk(files) == [kind |-> "ok", files |-> files]
NoReader == [open |-> FALSE]

\* the installers tried: filler up to hdr_offset, a header that announces
\* `count` files, up to MaxIsFiles records with payloads, the last perhaps cut
MaxIsFiles == 2
NulBytes(n) == [i \in 1..n |-> 0]
\* signature, num_files, ty, x4, x5, x6
IsHeaderBytes(count) ==
    <<73, 110, 115, 116, 97, 108, 108, 83, 104, 105, 101, 108, 100, 0>>
        \o <<count % 256, count \div 256>> \o NulBytes(30)
\* file_name, encoded_flags, x3, file_len, x5, is_unicode_launcher, x7
IsRecordBytes(name, len) ==
    name \o NulBytes(FilePathLen - Len(name)) \o NulBytes(8) \o LE32(len) \o NulBytes(40)
IsPayloads == {<<>>, <<91>>, <<93, 91>>}
IsItems == {IsRecordBytes(name, Len(data)) \o data :
                name \in {<<120>>, <<97, 98, 99>>}, data \in IsPayloads}
IsBodies == {Concat(items) : items \in UNION {[1..n -> IsItems] : n \in 0..MaxIsFiles}}
IsCuts(body) == {Len(body)} \cup {n \in 0..Len(body) : Len(body) - n \in {1, 2, IsAttrSize}}
IsCutBodies == UNION {{SubSeq(body, 1, cut) : cut \in IsCuts(body)} : body \in IsBodies}
IsFilesTried ==
    {[hdr |-> Len(junk), bytes |-> junk \o IsHeaderBytes(count) \o body] :
        junk \in {<<>>, <<0, 0, 0>>}, count \in 0..MaxIsFiles, body \in IsCutBodies}

\* IsSetup::new has read the header; entries() seeks behind it
InitIse ==
    /\ \E f \in IsFilesTried : isFile = f.bytes /\ isHdr = f.hdr
    /\ isPos = isHdr + IsHeaderSize
    /\ isFiles = <<>>
    /\ isOut = StillRunning
    /\ isRdr = NoReader
    /\ IdlePatch /\ IdleNdl /\ IdleFmt /\ IdleDec /\ IdleNfo /\ IdleExt
    /\ IdleXa /\ IdleWz

iseOthers == <<patchVars, ndlVars, fmtVars, decVars, nfoVars, extVars, xaVars, wzVars>>

\* self.hdr.num_files
NumFiles == U16At(isFile, isHdr + NumFilesAt)

\* one turn of the for loop: read a record, keep it with the offset it was
\* read at, seek over its payload
IseRecord ==
    /\ isOut = StillRunning
    /\ Len(isFiles) < NumFiles
    /\ Len(isFile) >= isPos + IsAttrSize
    /\ LET attr == SubSeq(isFile, isPos + 1, isPos + IsAttrSize)
           len == U32At(attr, FileLenAt)
       IN /\ isFiles' = Append(isFiles, [name |-> UntilNul(SubSeq(attr, 1, FilePathLen)),
                                          len |-> len, offset |-> isPos])
          /\ isPos' = SeekCurrent(isPos + IsAttrSize, len)
    /\ UNCHANGED <<isFile, isHdr, isOut, isRdr, iseOthers>>

\* read_exact meets the end of the file inside a record
IseShort ==
    /\ isOut = StillRunning
    /\ Len(isFiles) < NumFiles
    /\ Len(isFile) < isPos + IsAttrSize
    /\ isOut' = IseError
    /\ UNCHANGED <<isFile, isHdr, isPos, isFiles, isRdr, iseOthers>>

\* Ok(files)
IseReturn ==
    /\ isOut = StillRunning
    /\ Len(isFiles) = NumFiles
    /\ isOut' = IseOk(isFiles)
    /\ UNCHANGED <<isFile, isHdr, isPos, isFiles, isRdr, iseOthers>>

\* entry_reader(entry) for one of the entries returned
IseOpen ==
    /\ isOut.kind = "ok"
    /\ \E i \in 1..Len(isOut.files) :
         LET entry == isOut.files[i]
             offset == entry.offset + IsAttrSize
         IN /\ isPos' = offset
            /\ isRdr' = [open |-> TRUE, entry |-> i, start |-> offset,
                         limit |-> entry.len, key |-> GenKey(entry.name)]
    /\ UNCHANGED <<isFile, isHdr, isFiles, isOut, iseOthers>>

NextIse == IseRecord \/ IseShort \/ IseReturn \/ IseOpen

SpecIse == InitIse /\ [][NextIse]_vars

\* the bytes the open reader can yield: from its start, at most its limit
ReaderBytes == Take(isFile, isRdr.start, isRdr.limit)

\* C19: entries() returns exactly num_files entries in file order; their
\* offsets are record starts, offset_0 = header_offset + sizeof(header) and
\* offset_{i+1} = offset_i + sizeof(record) + file_len_i; entry_reader starts
\* at offset_i + sizeof(record) and yields at most file_len_i bytes, so no
\* entry's payload overlaps another record or payload.
C19_EntryChain ==
    isOut.kind = "ok" =>
        LET fs == isOut.files IN
        /\ Len(fs) = NumFiles
        /\ \A i \in 1..Len(fs) :
             /\ fs[i].offset = IF i = 1 THEN isHdr + IsHeaderSize
                               ELSE fs[i - 1].offset + IsAttrSize + fs[i - 1].len
             /\ fs[i].len = U32At(isFile, fs[i].offset + FileLenAt)
             /\ fs[i].name = UntilNul(SubSeq(isFile, fs[i].offset + 1,
                                             fs[i].offset + FilePathLen))
        /\ isRdr.open =>
             /\ isRdr.start = fs[isRdr.entry].offset + IsAttrSize
             /\ Len(ReaderBytes) <= fs[isRdr.entry].len
             /\ \A j \in 1..Len(fs) :
                  j # isRdr.entry =>
                     \/ isRdr.start + Len(ReaderBytes) <= fs[j].offset
                     \/ fs[j].offset + IsAttrSize + fs[j].len <= isRdr.start

\* two entries with payloads behind a header at offset 3, the reader of the
\* second one open
C19_Witness ==
    /\ isOut.kind = "ok"
    /\ isHdr = 3
    /\ Len(isOut.files) = 2
    /\ isOut.files[1].len = 2
    /\ isRdr.open /\ isRdr.entry = 2
    /\ ReaderBytes = <<91>>

----------------------------------------------------------------------------
(* Setup::extract_to: every entry is copied to out_dir under its sanitised  *)
(* name.  A name is a sequence of characters (code points).                 *)

\* char::is_ascii_alphanumeric
AsciiAlphanumeric == (48..57) \cup (65..90) \cup (97..122)

\* name.replace(|c: char| !c.is_ascii_alphanumeric() && c != '.', "_")
Sanitise(name) ==
    [i \in 1..Len(name) |-> IF name[i] \notin AsciiAlphanumeric /\ name[i] # 46
                            THEN 95 ELSE name[i]]

\* out_dir.join(name) names out_dir itself or its parent: File::create fails
IsDirectory(name) == name \in {<<>>, <<46>>, <<46, 46>>}

\* the entries tried: up to MaxEntries of them; "a", "a-", "a_", ".", "e" with
\* an acute accent, "a.b"
MaxEntries == 2
XNames == {<<97>>, <<97, 45>>, <<97, 95>>, <<46>>, <<233>>, <<97, 46, 98>>}
XData == {<<>>, <<1>>, <<2, 3>>}
XEntry == [name : XNames, data : XData]
XEntryLists == UNION {[1..n -> XEntry] : n \in 0..MaxEntries}
XPaths == {Sanitise(n) : n \in XNames}

ExtError == [kind |-> "err"]
ExtOk(paths) == [kind |-> "ok", paths |-> paths]

\* let mut files = Vec::new(); for entry in self.entries()?
InitExt ==
    /\ xEntries \in XEntryLists
    /\ xIdx = 0
    /\ xDir = [p \in XPaths |-> NoFile]
    /\ xFiles = <<>>
    /\ xOut = StillRunning
    /\ IdlePatch /\ IdleNdl /\ IdleFmt /\ IdleDec /\ IdleNfo /\ IdleIse
    /\ IdleXa /\ IdleWz

extOthers == <<patchVars, ndlVars, fmtVars, decVars, nfoVars, iseVars, xaVars, wzVars>>

\* one turn of the for loop: create the file, copy the reader into it
ExtCopy ==
    /\ xOut = StillRunning
    /\ xIdx < Len(xEntries)
    /\ LET entry == xEntries[xIdx + 1]
           name == Sanitise(entry.name)
       IN /\ ~IsDirectory(name)
          /\ xDir' = [xDir EXCEPT ![name] = entry.data]
          /\ xFiles' = Append(xFiles, name)
    /\ xIdx' = xIdx + 1
    /\ UNCHANGED <<xEntries, xOut, extOthers>>

\* File::create fails: "Failed to create file"
ExtCreateFails ==
    /\ xOut = StillRunning
    /\ xIdx < Len(xEntries)
    /\ IsDirectory(Sanitise(xEntries[xIdx + 1].name))
    /\ xOut' = ExtError
    /\ UNCHANGED <<xEntries, xIdx, xDir, xFiles, extOthers>>

\* Ok(files)
ExtReturn ==
    /\ xOut = StillRunning
    /\ xIdx = Len(xEntries)
    /\ xOut' = ExtOk(xFiles)
    /\ UNCHANGED <<xEntries, xIdx, xDir, xFiles, extOthers>>

NextExt == ExtCopy \/ ExtCreateFails \/ ExtReturn

SpecExt == InitExt /\ [][NextExt]_vars

\* C20 as claimed: extract_to creates exactly one file per entry, in entries()
\* order, named by the entry's name with every character outside [A-Za-z0-9.]
\* replaced by '_' (same character count), holding exactly the bytes of the
\* entry's reader, and returns the paths in that order; distinct entries
\* yield distinct output files.  (Entries are taken as distinct when their
\* names differ.)
C20_OneFilePerEntry ==
    (/\ xOut.kind = "ok"
     /\ \A i, j \in 1..Len(xEntries) : i # j => xEntries[i].name # xEntries[j].name) =>
        /\ Len(xOut.paths) = Len(xEntries)
        /\ \A i \in 1..Len(xEntries) :
             /\ xOut.paths[i] = Sanitise(xEntries[i].name)
             /\ Len(xOut.paths[i]) = Len(xEntries[i].name)
             /\ xDir[xOut.paths[i]] = xEntries[i].data
        /\ \A i, j \in 1..Len(xEntries) : i # j => xOut.paths[i] # xOut.paths[j]
        /\ \A p \in XPaths : xDir[p] # NoFile => \E i \in 1..Len(xEntries) : xOut.paths[i] = p

-----------------------------------------------------------------------------
(* extract-all (main, Args::ExtractAll): the glob's paths are numbered by   *)
(* enumerate() and handed to the workers of the rayon pool; each worker     *)
(* runs SetupOpt::extract_and_report on its installer.  A step of a worker  *)
(* is one of the file-system operations of extract_and_report; the steps of *)
(* different workers interleave freely.                                     *)

MaxInstallers == 2

\* an installer path dir/stem.exe; the paths the glob can match, in the
\* alphabetical order glob::glob yields them
XaPath(d, s) == [dir |-> d, stem |-> s]
XaAll == <<XaPath("a", "s"), XaPath("a", "t"), XaPath("b", "s"), XaPath("b", "t")>>
XaMatches ==
    {SelectSeq(XaAll, LAMBDA p : p \in S) :
        S \in {T \in SUBSET {XaAll[i] : i \in 1..Len(XaAll)} :
                 \E n \in 1..MaxInstallers :
                    \E f \in [1..n -> T] : T = {f[i] : i \in 1..n}}}

\* a directory is named by its parent, a text and an optional number:
\* temp_dir().join(format!("mssetupx{id}")) and out_dir.join(file_stem)
NoNumber == -1
TmpDir(id) == [root |-> "temp", text |-> "mssetupx", num |-> id]
OutDir(path) == [root |-> "out", text |-> path.stem, num |-> NoNumber]
XaDirs ==
    {TmpDir(id) : id \in 0..(MaxInstallers - 1)}
        \cup {OutDir(XaAll[i]) : i \in 1..Len(XaAll)}

\* the files: what extract_to leaves in the temp directory, what the archive
\* unpacks to, and the report
XaFileNames == {"setup.cab", "data.bin", "junk.tmp", "more.bin", "report.txt"}
Absent == [kind |-> "absent"]
NoDir == [kind |-> "nodir"]
EmptyDir == [kind |-> "dir", files |-> [n \in XaFileNames |-> Absent]]
CabOf(path) == [kind |-> "file", from |-> path, len |-> IF path.dir = "a" THEN 1 ELSE 2]
\* the files packed in the installer's archive
Ships(path) == IF path.dir = "a" THEN {"data.bin", "junk.tmp"} ELSE {"data.bin", "more.bin"}
\* the remove_exts of the command line, and the names that end in one
RemoveExts == {"tmp"}
HasExt(name) == name = "junk.tmp" /\ "tmp" \in RemoveExts

\* std::fs::remove_dir_all, its error dropped or the directory present
RemoveDirAll(fs, d) == [fs EXCEPT ![d] = NoDir]
\* std::fs::create_dir_all
CreateDirAll(fs, d) == IF fs[d].kind = "nodir" THEN [fs EXCEPT ![d] = EmptyDir] ELSE fs

\* extract_and_report: remove_dir_all(&tmp_dir), create_dir_all(&tmp_dir),
\* create_dir_all(&out_dir)
Prepare(fs, id, path) ==
    CreateDirAll(CreateDirAll(RemoveDirAll(fs, TmpDir(id)), TmpDir(id)), OutDir(path))

\* extract_setup: setup.extract_to(tmp_dir)
ExtractToTmp(fs, id, path) ==
    [fs EXCEPT ![TmpDir(id)].files["setup.cab"] = CabOf(path)]

\* extract_setup: extract_cab_split(out, out_dir) unpacks the archive found
\* in the temp directory into the output directory
ExtractToOut(fs, id, path) ==
    LET cab == fs[TmpDir(id)].files["setup.cab"]
    IN [fs EXCEPT ![OutDir(path)].files =
            [n \in XaFileNames |->
                IF n \in Ships(cab.from)
                THEN [kind |-> "file", from |-> cab.from, len |-> cab.len]
                ELSE @[n]]]

\* get_all_nested_files(dir): the files in the directory
NestedFiles(fs, path) ==
    {n \in XaFileNames : fs[OutDir(path)].files[n].kind # "absent"}

\* the report: File::create(report.txt) first (an existing report is
\* truncated, so it is listed with length 0), then one line per entry
ReportOf(fs, path, entries) ==
    [kind |-> "report",
     lines |-> {<<n, IF n = "report.txt" THEN 0 ELSE fs[OutDir(path)].files[n].len>> :
                    n \in entries}]
WriteReport(fs, path, entries) ==
    [fs EXCEPT ![OutDir(path)].files["report.txt"] = ReportOf(fs, path, entries)]
\* entry.metadata()? fails on an entry that is no longer there; the report
\* was created empty before
WriteEmptyReport(fs, path) ==
    [fs EXCEPT ![OutDir(path)].files["report.txt"] = [kind |-> "report", lines |-> {}]]

\* the second loop: remove_file on the entries with a listed prefix or
\* extension; its errors are logged only
RemoveListed(fs, path, entries) ==
    [fs EXCEPT ![OutDir(path)].files =
        [n \in XaFileNames |-> IF n \in entries /\ HasExt(n) THEN Absent ELSE @[n]]]

\* if !keep_tmp { remove_dir_all(tmp_dir)? }
CleanTmp(fs, id, keep) == IF keep THEN fs ELSE RemoveDirAll(fs, TmpDir(id))

\* one installer processed from start to end with nothing in between
RunAlone(fs, id, path, keep) ==
    LET f3 == ExtractToOut(ExtractToTmp(Prepare(fs, id, path), id, path), id, path)
        entries == NestedFiles(f3, path)
    IN CleanTmp(RemoveListed(WriteReport(f3, path, entries), path, entries), id, keep)

\* the installers processed one after the other, in the order of `paths`
RECURSIVE RunSequential(_, _, _, _)
RunSequential(fs, jobs, n, keep) ==
    IF n = 0 THEN fs
    ELSE RunAlone(RunSequential(fs, jobs, n - 1, keep), n - 1, jobs[n], keep)

\* let _ = create_dir_all(&out_dir); nothing else exists yet
XaFsInit == [d \in XaDirs |-> NoDir]

InitXa ==
    /\ xaJobs \in XaMatches
    /\ xaKeep \in BOOLEAN
    /\ xaPc = [i \in 1..Len(xaJobs) |-> "prepare"]
    /\ xaFs = XaFsInit
    /\ xaSeen = [i \in 1..Len(xaJobs) |-> {}]
    /\ IdlePatch /\ IdleNdl /\ IdleFmt /\ IdleDec /\ IdleNfo /\ IdleIse /\ IdleExt
    /\ IdleWz

xaOthers == <<patchVars, ndlVars, fmtVars, decVars, nfoVars, iseVars, extVars, wzVars>>

\* the worker of paths[i] has the id i - 1 (enumerate counts from 0)
XaPrepare(i) ==
    /\ xaPc[i] = "prepare"
    /\ xaFs' = Prepare(xaFs, i - 1, xaJobs[i])
    /\ xaPc' = [xaPc EXCEPT ![i] = "to_tmp"]
    /\ UNCHANGED <<xaJobs, xaKeep, xaSeen, xaOthers>>

XaExtractToTmp(i) ==
    /\ xaPc[i] = "to_tmp"
    /\ xaFs' = ExtractToTmp(xaFs, i - 1, xaJobs[i])
    /\ xaPc' = [xaPc EXCEPT ![i] = "to_out"]
    /\ UNCHANGED <<xaJobs, xaKeep, xaSeen, xaOthers>>

XaExtractToOut(i) ==
    /\ xaPc[i] = "to_out"
    /\ xaFs' = ExtractToOut(xaFs, i - 1, xaJobs[i])
    /\ xaPc' = [xaPc EXCEPT ![i] = "list"]
    /\ UNCHANGED <<xaJobs, xaKeep, xaSeen, xaOthers>>

\* create_report_and_clean_up: let entries = get_all_nested_files(dir)?
XaList(i) ==
    /\ xaPc[i] = "list"
    /\ xaSeen' = [xaSeen EXCEPT ![i] = NestedFiles(xaFs, xaJobs[i])]
    /\ xaPc' = [xaPc EXCEPT ![i] = "report"]
    /\ UNCHANGED <<xaJobs, xaKeep, xaFs, xaOthers>>

\* the report is written: every entry is still there
XaReport(i) ==
    /\ xaPc[i] = "report"
    /\ xaSeen[i] \subseteq NestedFiles(xaFs, xaJobs[i])
    /\ xaFs' = WriteReport(xaFs, xaJobs[i], xaSeen[i])
    /\ xaPc' = [xaPc EXCEPT ![i] = "remove"]
    /\ UNCHANGED <<xaJobs, xaKeep, xaSeen, xaOthers>>

\* an entry is gone: metadata()? returns the error, the worker logs it
XaReportFails(i) ==
    /\ xaPc[i] = "report"
    /\ ~(xaSeen[i] \subseteq NestedFiles(xaFs, xaJobs[i]))
    /\ xaFs' = WriteEmptyReport(xaFs, xaJobs[i])
    /\ xaPc' = [xaPc EXCEPT ![i] = "failed"]
    /\ UNCHANGED <<xaJobs, xaKeep, xaSeen, xaOthers>>

XaRemove(i) ==
    /\ xaPc[i] = "remove"
    /\ xaFs' = RemoveListed(xaFs, xaJobs[i], xaSeen[i])
    /\ xaPc' = [xaPc EXCEPT ![i] = "clean"]
    /\ UNCHANGED <<xaJobs, xaKeep, xaSeen, xaOthers>>

XaClean(i) ==
    /\ xaPc[i] = "clean"
    /\ xaFs' = CleanTmp(xaFs, i - 1, xaKeep)
    /\ xaPc' = [xaPc EXCEPT ![i] = "done"]
    /\ UNCHANGED <<xaJobs, xaKeep, xaSeen, xaOthers>>

NextXa ==
    \E i \in 1..Len(xaJobs) :
        \/ XaPrepare(i) \/ XaExtractToTmp(i) \/ XaExtractToOut(i) \/ XaList(i)
        \/ XaReport(i) \/ XaReportFails(i) \/ XaRemove(i) \/ XaClean(i)

SpecXa == InitXa /\ [][NextXa]_vars

\* every worker has returned
XaAllEnded == \A i \in 1..Len(xaJobs) : xaPc[i] \in {"done", "failed"}

\* C21 as claimed: in extract-all, two distinct installer paths matched by
\* the glob get distinct temp directories (temp/mssetupx<id>) and distinct
\* output subdirectories (out_dir/<file stem>), so no worker touches a
\* directory of another, and once all workers have returned every
\* installer's output directory holds what sequential processing leaves
\* there.
C21_DisjointWorkers ==
    /\ \A i, j \in 1..Len(xaJobs) :
          i # j => /\ TmpDir(i - 1) # TmpDir(j - 1)
                   /\ OutDir(xaJobs[i]) # OutDir(xaJobs[j])
    /\ XaAllEnded =>
          \A i \in 1..Len(xaJobs) :
              xaFs[OutDir(xaJobs[i])] =
                  RunSequential(XaFsInit, xaJobs, Len(xaJobs), xaKeep)[OutDir(xaJobs[i])]

-----------------------------------------------------------------------------
(* The WzPatch object: new reads the header and remembers data_offset;      *)
(* verify_checksum and patch_stream / process share the one reader.         *)

\* b"WzPatch\x1A"
WzMagic == <<87, 122, 80, 97, 116, 99, 104, 26>>

\* Adler-32 of the decompressed bytes, as zlib stores it (big endian)
AdlerMod == 65521
RECURSIVE AdlerSums(_, _, _, _)
AdlerSums(s, i, a, b) ==
    IF i > Len(s) THEN <<a, b>>
    ELSE LET a2 == (a + s[i]) % AdlerMod
         IN AdlerSums(s, i + 1, a2, (b + a2) % AdlerMod)
Adler32(s) ==
    LET ab == AdlerSums(s, 1, 1, 0)
    IN <<ab[2] \div 256, ab[2] % 256, ab[1] \div 256, ab[1] % 256>>

\* the zlib header: CM = 8, CINFO <= 7, no preset dictionary, FCHECK
ZlibHeaderOk(s) ==
    /\ Len(s) >= 2
    /\ s[1] % 16 = 8 /\ s[1] \div 16 <= 7
    /\ (s[2] \div 32) % 2 = 0
    /\ ((s[1] * 256) + s[2]) % 31 = 0

InflateError(out) == [ok |-> FALSE, data |-> out]

RECURSIVE InflateBlocks(_, _, _)
\* the deflate blocks from `at` on, `out` decoded so far.  Stored blocks
\* (BTYPE 00: LEN, NLEN = ~LEN, LEN bytes) are decoded; BTYPE 11 is an error;
\* the Huffman block types are not decoded here and no file below has one.
InflateBlocks(s, at, out) ==
    IF at >= Len(s) THEN InflateError(out)
    ELSE LET final == s[at + 1] % 2 = 1
             btype == (s[at + 1] \div 2) % 4
         IN IF btype # 0 \/ Len(s) < at + 5 THEN InflateError(out)
            ELSE LET len == s[at + 2] + (256 * s[at + 3])
                     nlen == s[at + 4] + (256 * s[at + 5])
                     data == SubSeq(s, at + 6, Min(Len(s), at + 5 + len))
                 IN IF len + nlen # 65535 THEN InflateError(out)
                    ELSE IF Len(data) < len THEN InflateError(out \o data)
                    ELSE IF ~final THEN InflateBlocks(s, at + 5 + len, out \o data)
                    ELSE IF /\ Len(s) >= at + 9 + len
                            /\ SubSeq(s, at + 6 + len, at + 9 + len) = Adler32(out \o data)
                         THEN [ok |-> TRUE, data |-> out \o data]
                         ELSE InflateError(out \o data)

\* flate2::bufread::ZlibDecoder over the reader: the bytes it delivers, and
\* whether the stream ended well
Inflate(s) == IF ZlibHeaderOk(s) THEN InflateBlocks(s, 2, <<>>) ELSE InflateError(<<>>)

\* the reader is left where the last call stopped
SeekNone(offset, at) == at

\* self.rdr.seek(SeekFrom::Start(self.data_offset))
SeekDataOffset(offset, at) == offset

\* digest.update(&buf[..n]) for a read of one byte, as a function of the
\* register and the byte
DigestUpdate == [w \in [1..4 -> Byte], b \in Byte |-> CrcByte(w, b)]

RECURSIVE CalcCrc(_, _)
\* wz_patch_calc_crc: read until read returns 0, updating the digest with
\* every read, then finalize
CalcCrc(digest, bytes) ==
    IF bytes = <<>> THEN CrcFinalize(digest)
    ELSE CalcCrc(DigestUpdate[digest, Head(bytes)], Tail(bytes))

\* wz_patch_verify_crc over the reader from `from` to its end
VerifyFrom(bytes, hdr, from) ==
    [call |-> "verify", from |-> from,
     ok |-> CalcCrc(CrcInit, SubSeq(bytes, from + 1, Len(bytes))) = hdr.checksum,
     data |-> <<>>]

\* patch_stream from `from`: what the WzPatchStream is fed
StreamFrom(bytes, hdr, from) ==
    LET z == Inflate(SubSeq(bytes, from + 1, Len(bytes)))
    IN [call |-> "process", from |-> from, ok |-> z.ok, data |-> z.data]

\* the encoders of the files tried: one stored block, final
ZlibStored(data) ==
    <<120, 1>> \o <<1, Len(data), 0, 255 - Len(data), 255>> \o data \o Adler32(data)
WzFileOf(version, checksum, body) == WzMagic \o LE32(version) \o WordLE(checksum) \o body

MaxCalls == 3

\* the decompressed streams: empty, Remove "a", Remove "b" then Remove "a"
WzStreams == {<<>>, <<97, 2>>, <<98, 2, 97, 2>>}
WzBodies ==
    {ZlibStored(d) : d \in WzStreams}
        \cup {SubSeq(ZlibStored(<<97, 2>>), 1, 10), <<120, 1, 7>>, <<>>}
WzFiles ==
    {WzFileOf(1, CalcCrc(CrcInit, b), b) : b \in WzBodies}
        \cup {WzFileOf(1, JunkWord, ZlibStored(<<97, 2>>)),
              <<0>> \o WzFileOf(1, CalcCrc(CrcInit, <<>>), <<>>),
              SubSeq(WzMagic, 1, 7)}

WzUnopened == [kind |-> "unopened"]
WzError == [kind |-> "err"]

InitWz ==
    /\ wzFile \in WzFiles
    /\ wzObj = WzUnopened
    /\ wzPos = 0
    /\ wzLog = <<>>
    /\ IdlePatch /\ IdleNdl /\ IdleFmt /\ IdleDec /\ IdleNfo /\ IdleIse /\ IdleExt
    /\ IdleXa

wzOthers == <<patchVars, ndlVars, fmtVars, decVars, nfoVars, iseVars, extVars, xaVars>>

\* WzPatch::new: WzPatchHdr::read_le (magic, version, checksum), then
\* data_offset = rdr.stream_position()
WzNew ==
    /\ wzObj = WzUnopened
    /\ StartsWith(wzFile, WzMagic) /\ Len(wzFile) >= Len(WzMagic) + 8
    /\ wzPos' = Len(WzMagic) + 8
    /\ wzObj' = [kind |-> "open",
                 hdr |-> [version |-> ReadU32(wzFile, Len(WzMagic)),
                          checksum |-> ReadU32(wzFile, Len(WzMagic) + 4)],
                 data_offset |-> wzPos']
    /\ UNCHANGED <<wzFile, wzLog, wzOthers>>

\* the magic does not match or the file ends in the header
WzNewFails ==
    /\ wzObj = WzUnopened
    /\ ~(StartsWith(wzFile, WzMagic) /\ Len(wzFile) >= Len(WzMagic) + 8)
    /\ wzObj' = WzError
    /\ wzPos' \in 0..Len(wzFile)
    /\ UNCHANGED <<wzFile, wzLog, wzOthers>>

\* verify_checksum: seek, then wz_patch_calc_crc reads to the end
WzVerify ==
    /\ wzObj.kind = "open" /\ Len(wzLog) < MaxCalls
    /\ wzLog' = Append(wzLog,
                       VerifyFrom(wzFile, wzObj.hdr, SeekDataOffset(wzObj.data_offset, wzPos)))
    /\ wzPos' = Len(wzFile)
    /\ UNCHANGED <<wzFile, wzObj, wzOthers>>

\* process: patch_stream seeks and wraps the reader; stream.process reads as
\* far as the records take it, which leaves the reader anywhere behind
\* data_offset
WzProcess ==
    /\ wzObj.kind = "open" /\ Len(wzLog) < MaxCalls
    /\ wzLog' = Append(wzLog,
                       StreamFrom(wzFile, wzObj.hdr, SeekDataOffset(wzObj.data_offset, wzPos)))
    /\ wzPos' \in wzObj.data_offset..Len(wzFile)
    /\ UNCHANGED <<wzFile, wzObj, wzOthers>>

NextWz == WzNew \/ WzNewFails \/ WzVerify \/ WzProcess

SpecWz == InitWz /\ [][NextWz]_vars

\* C22: on an opened WzPatch, data_offset is 16, and every verify_checksum
\* and process call, whatever calls came before it, starts reading at
\* data_offset and gives the result it would give as the first call.
C22_CallsStartAtDataOffset ==
    wzObj.kind = "open" =>
        /\ wzObj.data_offset = 16
        /\ \A i \in 1..Len(wzLog) :
             /\ wzLog[i].from = wzObj.data_offset
             /\ wzLog[i].call = "verify" =>
                   wzLog[i] = VerifyFrom(wzFile, wzObj.hdr, 16)
             /\ wzLog[i].call = "process" =>
                   wzLog[i] = StreamFrom(wzFile, wzObj.hdr, 16)

\* process, then a verify_checksum that passes, then process again with the
\* same two records, the reader having been left at the end of the file
C22_Witness ==
    /\ Len(wzLog) = 3
    /\ wzLog[1].call = "process" /\ wzLog[2].call = "verify" /\ wzLog[2].ok
    /\ wzLog[3].call = "process" /\ wzLog[3].ok /\ wzLog[3].data = <<98, 2, 97, 2>>
    /\ wzLog[3] = wzLog[1]
    /\ wzPos = Len(wzFile)

-----------------------------------------------------------------------------
(* find_padding_data on its own: a reader positioned at `offset` of a file, *)
(* and a limit.  The file, the offset and the result are kept in the        *)
(* variables of the format probe; fScans holds the one call made.           *)

MaxPadSegs == 4
\* the sentinel, its first three bytes, and sixteen bytes of filler
PadPieces == {PAT, <<80, 65, 68>>, Dots(16)}
PadFiles ==
    {Concat(ps) \o t :
        ps \in UNION {[1..n -> PadPieces] : n \in 0..MaxPadSegs},
        t \in {<<>>, Dots(PadBufLen)}}
PadOffsets == {0, 3, 16}
PadLimits == {15, 16, 40, MAX_PE_SIZE}

InitPad ==
    /\ fFile \in PadFiles
    /\ fOffset \in PadOffsets
    /\ fOut = StillRunning
    /\ fScans = <<>>
    /\ IdlePatch /\ IdleNdl /\ IdleDec /\ IdleNfo /\ IdleIse /\ IdleExt
    /\ IdleXa /\ IdleWz

\* find_padding_data(reader, offset, limit)
PadFind ==
    /\ fOut = StillRunning
    /\ \E limit \in PadLimits :
         /\ fOut' \in FindPaddingData(fFile, fOffset, limit)
         /\ fScans' = <<<<fOffset, limit>>>>
    /\ UNCHANGED <<fFile, fOffset, fmtOthers>>

NextPad == PadFind

SpecPad == InitPad /\ [][NextPad]_vars

RECURSIVE SentinelRunEnd(_, _)
\* where the run of whole sentinels that starts at s ends
SentinelRunEnd(f, s) ==
    IF Len(f) >= s + 16 /\ SubSeq(f, s + 1, s + 16) = PAT
    THEN SentinelRunEnd(f, s + 16)
    ELSE s

\* C23 as claimed: whenever the sentinel occurs within the next `limit`
\* bytes of the reader positioned at `offset`, find_padding_data returns
\* Some(pos), pos being the absolute offset at which the run of consecutive
\* 16-byte sentinels that starts at the first occurrence ends, however long
\* the run is; it returns None only when no sentinel occurs in those bytes.
C23_PaddingRunEnd ==
    fOut # StillRunning =>
        LET limit == fScans[1][2]
            found == Occurrences(Take(fFile, fOffset, limit), PAT)
        IN IF found = {} THEN fOut = NoneFound
           ELSE LET first == CHOOSE i \in found : \A j \in found : i <= j
                IN fOut = SomeAt(SentinelRunEnd(fFile, fOffset + first))

-----------------------------------------------------------------------------
(* The sizes of the packed structs of the InstallShield container, field by *)
(* field, against the offsets entries() and entry_reader() work with.       *)

RECURSIVE SumSeq(_)
\* size_of a #[repr(C, packed)] struct: the sum of its fields' sizes
SumSeq(sizes) == IF sizes = <<>> THEN 0 ELSE Head(sizes) + SumSeq(Tail(sizes))

\* IsHeader: signature, num_files, ty, x4, x5, x6
IsHeaderFields == <<14, 2, 4, 8, 2, 16>>
\* IsFileAttributesX: filename_len, encoded_flags, x3, file_len, x5,
\* is_unicode_launcher
IsAttrFieldsX == <<4, 4, 2, 4, 8, 2>>
\* IsFileAttributes: file_name, encoded_flags, x3, file_len, x5,
\* is_unicode_launcher, x7
IsAttrFields == <<FilePathLen, 4, 4, 4, 8, 2, 30>>

\* C24 as claimed: an entry record occupies 328 bytes (the header 46): the
\* payload begins 328 bytes after the record offset and the next record at
\* record offset + 328 + file_len.
C24_RecordSizeAsClaimed ==
    isOut.kind = "ok" =>
        LET fs == isOut.files IN
        /\ SumSeq(IsHeaderFields) = 46
        /\ \A i \in 1..Len(fs) :
             fs[i].offset = IF i = 1 THEN isHdr + 46
                            ELSE fs[i - 1].offset + 328 + fs[i - 1].len
        /\ isRdr.open => isRdr.start = fs[isRdr.entry].offset + 328

\* C24, amended: an entry record occupies 312 bytes, the sum of the fields
\* of IsFileAttributes (260 + 4 + 4 + 4 + 8 + 2 + 30), and the header 46
\* bytes (14 + 2 + 4 + 8 + 2 + 16): the first record begins 46 bytes after
\* the header offset, an entry's payload 312 bytes after its record offset,
\* and the next record at record offset + 312 + file_len.
C24_RecordSize ==
    /\ SumSeq(IsHeaderFields) = 46
    /\ SumSeq(IsAttrFields) = 312
    /\ isOut.kind = "ok" =>
        LET fs == isOut.files IN
        /\ \A i \in 1..Len(fs) :
             fs[i].offset = IF i = 1 THEN isHdr + SumSeq(IsHeaderFields)
                            ELSE fs[i - 1].offset + SumSeq(IsAttrFields) + fs[i - 1].len
        /\ isRdr.open => isRdr.start = fs[isRdr.entry].offset + SumSeq(IsAttrFields)

\* two entries, the first with a payload of one byte, behind a header at
\* offset 0; the reader of the first one is open 46 + 312 bytes in
C24_Witness ==
    /\ isOut.kind = "ok"
    /\ isHdr = 0
    /\ Len(isOut.files) = 2
    /\ isOut.files[1].len = 1
    /\ isOut.files[2].offset = 46 + 312 + 1
    /\ isRdr.open /\ isRdr.entry = 1 /\ isRdr.start = 46 + 312
    /\ ReaderBytes = <<91>>

\* C25 as claimed: entries() never consumes more than 1000 bytes from the
\* marker offset on for the marker line and the table, and for every input,
\* a table of quote-led lines that runs to the end of the file or of the
\* 1000 bytes included, it returns entries or an error and does not abort;
\* the entries it returns are built from bytes inside the bound.
C25_BoundedNoAbort ==
    /\ nfPos <= nfStart + NfoLimit
    /\ nfOut # Panicked
    /\ nfOut.kind = "ok" => nfPos <= NfoWindowEnd(nfFile, nfStart)

\* C26 as claimed: the plaintext EntryReader produces for an entry depends
\* on the entry's ciphertext and file name only: read to the end in any
\* split into reads, the concatenated output is the output of one read that
\* takes the whole payload.
C26_SplitIndependent ==
    eEof => eOut = DecodeBlocks(eCipher, GenKey(eName), 0, 0)

====
